---- MODULE Spec2Model ----
(***************************************************************************)
(* A model of the telegram-daily-briefing pipeline:                        *)
(*   ContentProcessor  (src/src/content_processor.py)                      *)
(*   MessageFormatter  (src/src/message_formatter.py)                      *)
(*   main              (src/src/main.py)                                   *)
(* Texts are sequences of one-character strings; a URL is an index into    *)
(* the URL universe and UrlText gives its characters.                      *)
(***************************************************************************)
EXTENDS Integers, Sequences, FiniteSets, TLC

(***************************************************************************)
(* Bounds of the model                                                     *)
(***************************************************************************)
\* longest candidate list collect_all() hands to process(); the URLs are
\* 1..MaxLen, more than the batch size, so that truncation happens
MaxLen == 12
\* relevance scores are 1..MaxScore
MaxScore == 3
\* process() calls on one candidate list within one session
MaxCalls == 2
\* process() calls on one candidate list when the list is drained
MaxDrainCalls == 3
\* ContentProcessor objects constructed on the same state file
MaxSessions == 2
\* entries that reach the disk before a failing write stops
MaxPartial == 1

\* items in a list handed to format_messages() on its own
MaxItems == 3
\* the character budgets tried are BudgetUnit * 1 .. BudgetUnit * MaxBudgetUnits
BudgetUnit == 9
MaxBudgetUnits == 4
\* summary_max_length of the formatting configuration
SummaryWidth == 5
\* longest candidate list collected in a run of main()
MaxRunLen == 3
\* runs of main() on the same state file
MaxRuns == 2
\* longest array, string or key list of a state file that is read
MaxEntries == 2
\* minutes around each boundary of the date test
MaxOffset == 1
\* hours around zero among the retention windows
MaxSmallWindow == 1
\* days past the 7-day ceiling that the longest window and the oldest item reach
ExtraDays == 3
\* filler words in front of the last words of a scored text
MaxFill == 10
\* keywords added to a scored text, one after the other
MaxAdded == 2
\* most items the RSS feeds yield in one collect_all()
MaxFeedItems == 2
\* largest max_retries a TelegramSender is built with
MaxRetryCount == 4
\* most feeds (or sites) of one category in the configuration
MaxSources == 2
\* most entries a feed holds, more than the 3 that are read
MaxSourceEntries == 4
\* most items of a collection that holds items of the social profiles
MaxSocialItems == 2
\* most blocks handed to send_messages() on its own
MaxBlocks == 2

(***************************************************************************)
(* Program constants                                                       *)
(***************************************************************************)
\* prioritized[:10]
MaxBatch == 10
\* formatting_config.get('max_message_length', 4000)
DefaultMaxLength == 4000
\* formatting_config.get('summary_max_length', 150)
DefaultSummaryLength == 150

Urls == 1..MaxLen
Scores == 1..MaxScore
Sources == {"rss", "web"}

Min(a, b) == IF a <= b THEN a ELSE b
Range(s) == {s[i] : i \in 1..Len(s)}

(***************************************************************************)
(* Candidate lists.  A list is drawn by its length, the way URLs repeat in *)
(* it and the way scores vary in it.  process() takes any list of items;   *)
(* the lists collect_all() returns are the ones sorted by score,           *)
(* descending ("flat" and "falling").                                      *)
(***************************************************************************)
UrlPatterns == {"distinct", "pairs", "cycle", "reversed"}
ScorePatterns == {"flat", "rising"}
SortedScorePatterns == {"flat", "falling"}

UrlAt(p, n, i) ==
    CASE p = "distinct" -> i
      [] p = "pairs"    -> (i + 1) \div 2
      [] p = "cycle"    -> ((i - 1) % 3) + 1
      [] p = "reversed" -> n + 1 - i

ScoreAt(q, i) ==
    CASE q = "flat"    -> 1
      [] q = "rising"  -> ((i - 1) % MaxScore) + 1
      [] q = "falling" -> IF i < MaxScore THEN MaxScore + 1 - i ELSE 1

\* NewsItem(title, summary, url, source, published_at, relevance_score);
\* the title length and the source label vary with the discovery position
NewsItem(p, q, n, i) ==
    [title           |-> [j \in 1..(i % 3) |-> "t"],
     summary         |-> [j \in 1..(i % 2) |-> "s"],
     url             |-> UrlAt(p, n, i),
     source          |-> IF i % 2 = 1 THEN "rss" ELSE "web",
     relevance_score |-> ScoreAt(q, i)]

CandidateList(p, q, n) == [i \in 1..n |-> NewsItem(p, q, n, i)]

UrlsOf(items) == {items[i].url : i \in 1..Len(items)}

(***************************************************************************)
(* The state file: absent, a complete JSON document whose processed_urls   *)
(* array holds `entries`, or the remains of a write that stopped early.    *)
(***************************************************************************)
AbsentFile == [kind |-> "absent", entries |-> <<>>]

\* list(self.processed_urls): the set in one of its iteration orders
RECURSIVE ListOfSet(_, _)
ListOfSet(S, order) ==
    IF S = {} THEN <<>>
    ELSE LET x == IF order = "up"
                  THEN CHOOSE u \in S : \A v \in S : u <= v
                  ELSE CHOOSE u \in S : \A v \in S : u >= v
         IN <<x>> \o ListOfSet(S \ {x}, order)

SetOrders == {"up", "down"}

VARIABLES
    file,            \* the state file on disk
    processed_urls,  \* ContentProcessor.processed_urls of the live object
    raw_news,        \* the candidate list last collected
    final_items,     \* what the last process() call returned
    log,             \* the process() calls made on raw_news in this session
    saved,           \* how the last save of this session ended
    session,         \* number of ContentProcessor objects constructed so far
    collected,       \* whether this session has collected its candidates
    formatting,      \* the formatting configuration of MessageFormatter
    messages,        \* what format_messages() returned, or "none" before it ran
    pc,              \* where the current run of main() stands
    delivered,       \* what _send_single_message returned for each block sent
    error,           \* the exception main() ended with, or "none"
    undelivered,     \* URLs of the batches of earlier runs whose delivery failed
    max_age_hours,   \* NewsCollector.max_age_hours
    fetched,         \* what the three fetchers of collect_all() did
    all_news,        \* the list handed to _filter_by_date_and_relevance
    filtered,        \* what the filter returned, or "none" before it ran
    scored,          \* the calls of _calculate_relevance: text and score
    max_retries,     \* TelegramSender.max_retries
    events,          \* the posts and sleeps of _send_single_message, in order
    sent,            \* what _send_single_message returned, or "none"
    raw_token,       \* os.getenv('TELEGRAM_BOT_TOKEN', '')
    raw_chat,        \* os.getenv('TELEGRAM_CHAT_ID', '')
    max_news_per_run \* the configuration key news.max_news_per_run

procVars == <<file, processed_urls, raw_news, final_items, log, saved, session,
              collected>>
fmtVars == <<formatting, messages>>
mainVars == <<pc, delivered, error, undelivered>>
collVars == <<max_age_hours, fetched, all_news, filtered, scored>>
sendVars == <<max_retries, events, sent>>
envVars == <<raw_token, raw_chat>>
confVars == <<max_news_per_run>>
\* the variables of the components a specification does not exercise, and
\* the environment and the configuration, which no step changes
idleVars == <<collVars, sendVars, envVars, confVars>>
vars == <<procVars, fmtVars, mainVars, idleVars>>

\* config.get('news', {}).get('max_age_hours', 24)
DefaultMaxAgeHours == 24

\* a NewsCollector on the default configuration that has collected nothing
IdleCollector ==
    /\ max_age_hours = DefaultMaxAgeHours
    /\ fetched = "none"
    /\ all_news = <<>>
    /\ filtered = "none"
    /\ scored = <<>>

\* a configuration whose item cap is the batch size of process()
DefaultCap == max_news_per_run = MaxBatch

\* an environment without the two variables: os.getenv gives ''
NoCredentials ==
    /\ raw_token = <<>>
    /\ raw_chat = <<>>

(***************************************************************************)
(* ContentProcessor                                                        *)
(***************************************************************************)
\* _remove_duplicates: the loop over news_items with seen_urls / unique_items
RECURSIVE RemoveDuplicatesLoop(_, _, _)
RemoveDuplicatesLoop(rest, seen_urls, unique_items) ==
    IF rest = <<>> THEN unique_items
    ELSE LET item == Head(rest) IN
         IF item.url \notin seen_urls
         THEN RemoveDuplicatesLoop(Tail(rest), seen_urls \cup {item.url},
                                   Append(unique_items, item))
         ELSE RemoveDuplicatesLoop(Tail(rest), seen_urls, unique_items)

\* a deduplication that keeps the last occurrence of a URL instead of the first
RECURSIVE KeepLastLoop(_, _, _)
KeepLastLoop(rest, seen_urls, unique_items) ==
    IF rest = <<>> THEN unique_items
    ELSE LET item == rest[Len(rest)] IN
         IF item.url \notin seen_urls
         THEN KeepLastLoop(SubSeq(rest, 1, Len(rest) - 1), seen_urls \cup {item.url},
                           <<item>> \o unique_items)
         ELSE KeepLastLoop(SubSeq(rest, 1, Len(rest) - 1), seen_urls, unique_items)

RemoveDuplicatesKeepLast(news_items) == KeepLastLoop(news_items, {}, <<>>)

RemoveDuplicates(news_items) == RemoveDuplicatesLoop(news_items, {}, <<>>)

\* a filter that lets every item through
FilterNothing(news_items, processed) == news_items

\* a filter that gives up on the list once one of its items is known
FilterUntilKnown(news_items, processed) ==
    IF \E i \in 1..Len(news_items) : news_items[i].url \in processed
    THEN <<>>
    ELSE news_items

\* _filter_already_processed
FilterAlreadyProcessed(news_items, processed) ==
    SelectSeq(news_items, LAMBDA item : item.url \notin processed)

\* sorted(..., key=relevance_score, reverse=True): a stable sort, descending
InsertByScore(sorted, item) ==
    LET k == Cardinality({j \in 1..Len(sorted) :
                            sorted[j].relevance_score >= item.relevance_score})
    IN SubSeq(sorted, 1, k) \o <<item>> \o SubSeq(sorted, k + 1, Len(sorted))

RECURSIVE SortLoop(_, _)
SortLoop(rest, sorted) ==
    IF rest = <<>> THEN sorted
    ELSE SortLoop(Tail(rest), InsertByScore(sorted, Head(rest)))

\* a prioritization that leaves the items in the order they came in
PrioritizeNothing(news_items) == news_items

PrioritizeByKeywords(news_items) == SortLoop(news_items, <<>>)

\* a slice that is one item too long
TruncateOneMore(prioritized) ==
    SubSeq(prioritized, 1, Min(MaxBatch + 1, Len(prioritized)))

\* prioritized[:10]
Truncate(prioritized) == SubSeq(prioritized, 1, Min(MaxBatch, Len(prioritized)))

\* the value process() returns, from the list and the key set it starts with
ProcessOutput(news_items, processed) ==
    Truncate(PrioritizeByKeywords(
        FilterAlreadyProcessed(RemoveDuplicates(news_items), processed)))

\* an update that forgets to add the keys
AddNothing(processed, processed_items) == processed

\* an update that replaces the set by the keys of the batch
AddReplacing(processed, processed_items) == UrlsOf(processed_items)

\* an update that leaves the loop after the first key
AddFirstOnly(processed, processed_items) ==
    processed \cup {processed_items[i].url : i \in 1..Min(1, Len(processed_items))}

\* _update_processed_state, the loop adding the keys
AddProcessed(processed, processed_items) == processed \cup UrlsOf(processed_items)

\* a load that reads a key the document does not have
LoadWrongKey(f) == {}

\* What the state file can hold when it is read.  Besides "absent",
\* "document" and "truncated":
\*   "unreadable"    open() raises (no permission, a directory)
\*   "invalid"       the bytes are not JSON
\*   "top_array"     valid JSON whose top level is an array
\*   "top_scalar"    valid JSON whose top level is null or a number
\*   "no_key"        an object without the key processed_urls
\*   "string_value"  processed_urls is a string; entries are its characters
\*   "object_value"  processed_urls is an object; entries are its keys
\*   "scalar_value"  processed_urls is null or a number
\*   "nested_array"  processed_urls is an array holding arrays
FileKinds ==
    {"absent", "document", "truncated", "unreadable", "invalid", "top_array",
     "top_scalar", "no_key", "string_value", "object_value", "scalar_value",
     "nested_array"}

\* the exception raised inside the try block of _load_processed_urls
LoadException(f) ==
    CASE f.kind = "unreadable"                      -> "OSError"
      [] f.kind \in {"invalid", "truncated"}        -> "JSONDecodeError"
      [] f.kind \in {"top_array", "top_scalar"}     -> "AttributeError"
      [] f.kind \in {"scalar_value", "nested_array"} -> "TypeError"
      [] OTHER                                      -> "none"

\* except Exception: every class above derives from Exception
CaughtByLoad == {"OSError", "JSONDecodeError", "AttributeError", "TypeError"}

\* whether ContentProcessor.__init__ lets an exception of the load escape
ConstructorRaises(f) == LoadException(f) \notin CaughtByLoad \cup {"none"}

\* _load_processed_urls: a missing file leaves the set empty, an exception
\* inside the try resets it to empty, and otherwise the set is
\* set(data.get('processed_urls', [])): the elements of an array, the
\* characters of a string, the keys of an object
LoadProcessedUrls(f) ==
    IF LoadException(f) # "none" THEN {}
    ELSE IF f.kind \in {"document", "string_value", "object_value"}
         THEN Range(f.entries)
         ELSE {}

\* _save_processed_urls: open(state_file, 'w') truncates the file and
\* json.dump streams the document into it; any exception is caught and logged.
\*   "ok"         the whole document reached the disk
\*   "open_fails" open() raised: the file is as it was
\*   "write_fails" the write stopped after `cut` entries of the array
SaveOutcomes == {"ok", "open_fails", "write_fails"}

SaveProcessedUrls(f, urls, outcome, order, cut) ==
    CASE outcome = "ok"          -> [kind |-> "document", entries |-> ListOfSet(urls, order)]
      [] outcome = "open_fails"  -> f
      [] outcome = "write_fails" ->
            [kind |-> "truncated",
             entries |-> SubSeq(ListOfSet(urls, order), 1, Min(cut, Cardinality(urls)))]

\* every way one save can end: the file it leaves and how it ended
SaveResults(f, urls) ==
    {[file |-> SaveProcessedUrls(f, urls, outcome, order, cut), saved |-> outcome] :
        outcome \in SaveOutcomes, order \in SetOrders, cut \in 0..MaxPartial}

(***************************************************************************)
(* MessageFormatter.  A text is a sequence of characters; "T", "S" and "U" *)
(* stand for the three pictographs of the templates (one character each).  *)
(***************************************************************************)
Whitespace == {" ", "\n"}

RECURSIVE LStrip(_)
LStrip(text) ==
    IF text # <<>> /\ Head(text) \in Whitespace THEN LStrip(Tail(text)) ELSE text

RECURSIVE RStrip(_)
RStrip(text) ==
    IF text # <<>> /\ text[Len(text)] \in Whitespace
    THEN RStrip(SubSeq(text, 1, Len(text) - 1))
    ELSE text

\* str.strip()
Strip(text) == LStrip(RStrip(text))

\* text.replace('<', '&lt;').replace('>', '&gt;')
RECURSIVE EscapeMarkup(_)
EscapeMarkup(text) ==
    IF text = <<>> THEN <<>>
    ELSE (CASE Head(text) = "<" -> <<"&", "l", "t", ";">>
            [] Head(text) = ">" -> <<"&", "g", "t", ";">>
            [] OTHER            -> <<Head(text)>>) \o EscapeMarkup(Tail(text))

\* text.split(): the maximal runs of characters that are not whitespace
SplitWords(text) ==
    LET n == Len(text)
        IsSpace(i) == text[i] \in Whitespace
        starts == {i \in 1..n : ~IsSpace(i) /\ (i = 1 \/ IsSpace(i - 1))}
        EndOf(s) == CHOOSE e \in s..n :
                        /\ \A k \in s..e : ~IsSpace(k)
                        /\ e = n \/ IsSpace(e + 1)
        Nth(k) == CHOOSE s \in starts : Cardinality({t \in starts : t <= s}) = k
    IN [k \in 1..Cardinality(starts) |-> SubSeq(text, Nth(k), EndOf(Nth(k)))]

\* ' '.join(words)
RECURSIVE JoinWords(_)
JoinWords(words) ==
    IF words = <<>> THEN <<>>
    ELSE IF Len(words) = 1 THEN words[1]
    ELSE words[1] \o <<" ">> \o JoinWords(Tail(words))

\* _clean_text.  The substitution of line 90 only shortens runs of whitespace,
\* each of which line 93 then collapses to one space.
CleanText(text) ==
    IF text = <<>> THEN <<>>
    ELSE Strip(JoinWords(SplitWords(EscapeMarkup(text))))

Placeholder == <<".", ".", ".">>

\* textwrap.shorten(text, width, placeholder="..."): the text with its
\* whitespace collapsed if that fits the width, else the longest run of whole
\* leading words that fits together with the placeholder, then the placeholder
Shorten(text, width) ==
    LET words  == SplitWords(text)
        joined == JoinWords(words)
        fits   == {k \in 1..Len(words) :
                      Len(JoinWords(SubSeq(words, 1, k))) + Len(Placeholder) <= width}
    IN IF Len(joined) <= width THEN joined
       ELSE IF fits = {} THEN Placeholder
       ELSE JoinWords(SubSeq(words, 1, CHOOSE k \in fits : \A j \in fits : j <= k))
                \o Placeholder

\* the characters of a URL; some carry a trailing blank that strip() removes
UrlText(url) == IF url % 2 = 0 THEN <<"u", "u", " ">> ELSE <<"u">>

\* format_template: literal characters and the fields {title} {summary} {url}
DefaultTemplate ==
    <<"T", " ", "{title}", "\n", "S", " ", "{summary}", "\n", "U", " ", "{url}",
      "\n", "\n">>
PlainTemplate == <<"{title}", " ", "{url}", "\n">>
Templates == {DefaultTemplate, PlainTemplate}
Fields == {"{title}", "{summary}", "{url}"}

\* self.template.format(title=..., summary=..., url=...)
RECURSIVE ApplyTemplate(_, _, _, _)
ApplyTemplate(template, title, summary, url) ==
    IF template = <<>> THEN <<>>
    ELSE (CASE Head(template) = "{title}"   -> title
            [] Head(template) = "{summary}" -> summary
            [] Head(template) = "{url}"     -> url
            [] OTHER                        -> <<Head(template)>>)
         \o ApplyTemplate(Tail(template), title, summary, url)

\* an item whose url is None (an entry without a link)
NoUrl == 0

\* str(item.url), as an f-string writes it
UrlStr(url) == IF url = NoUrl THEN <<"N", "o", "n", "e">> ELSE UrlText(url)

\* what makes the try block of _format_single_item raise: shorten() refuses a
\* width the placeholder does not fit in (ValueError), and item.url.strip()
\* fails on a url that is None (AttributeError)
RenderRaises(item, config) ==
    \/ config.summary_max_length < Len(Placeholder)
    \/ item.url = NoUrl

\* an except branch that returns nothing for the item
FallbackNothing(item) == <<>>

\* the except branch of _format_single_item
FallbackRendering(item) ==
    <<"T", " ">> \o item.title \o <<"\n", "U", " ">> \o UrlStr(item.url)
        \o <<"\n", "\n">>

\* _format_single_item
FormatSingleItem(item, config) ==
    IF RenderRaises(item, config) THEN FallbackRendering(item)
    ELSE ApplyTemplate(config.format_template,
                       CleanText(item.title),
                       Shorten(CleanText(item.summary), config.summary_max_length),
                       Strip(UrlText(item.url)))

\* a test that looks at the new fragment alone
ExceedsBudgetAlone(current_message, formatted_item, max_length) ==
    Len(formatted_item) > max_length

\* a test on the length the block would have once trimmed
ExceedsBudgetTrimmed(current_message, formatted_item, max_length) ==
    Len(Strip(current_message \o formatted_item)) > max_length

\* len(current_message + formatted_item) > self.max_length
ExceedsBudget(current_message, formatted_item, max_length) ==
    Len(current_message \o formatted_item) > max_length

\* the loop of format_messages over the items, then the last open block
RECURSIVE FormatLoop(_, _, _, _)
FormatLoop(news_items, current_message, blocks, config) ==
    IF news_items = <<>>
    THEN IF current_message # <<>> THEN Append(blocks, Strip(current_message))
         ELSE blocks
    ELSE LET formatted_item == FormatSingleItem(Head(news_items), config) IN
         IF ExceedsBudget(current_message, formatted_item, config.max_message_length)
         THEN FormatLoop(Tail(news_items), formatted_item,
                         IF current_message # <<>>
                         THEN Append(blocks, Strip(current_message))
                         ELSE blocks,
                         config)
         ELSE FormatLoop(Tail(news_items), current_message \o formatted_item,
                         blocks, config)

\* format_messages
FormatMessages(news_items, config) ==
    IF news_items = <<>> THEN <<>> ELSE FormatLoop(news_items, <<>>, <<>>, config)

\* MessageFormatter({}): the defaults of __init__
DefaultConfig ==
    [max_message_length |-> DefaultMaxLength,
     summary_max_length |-> DefaultSummaryLength,
     format_template    |-> DefaultTemplate]

\* the formatting configurations tried
Budgets == {BudgetUnit * k : k \in 1..MaxBudgetUnits}
Configs ==
    [max_message_length : Budgets,
     summary_max_length : {SummaryWidth},
     format_template    : Templates]

\* the items handed to format_messages() on its own
Titles == {<<"a">>, <<"<", "a", " ", " ", "b">>}
Summaries == {<<>>, <<"s", "s", " ", "s", "s", "s">>}
FormatterItems ==
    [title : Titles, summary : Summaries, url : 1..2, source : {"rss"},
     relevance_score : {1}]
FormatterLists == UNION {[1..n -> FormatterItems] : n \in 0..MaxItems}

(***************************************************************************)
(* NewsCollector.  Times are minutes relative to the moment the filter     *)
(* runs (published_at - now: negative in the past, positive in the         *)
(* future); scores are tenths (1.5 is 15); a text is a sequence of         *)
(* characters.                                                             *)
(***************************************************************************)
MinutesPerHour == 60
HoursPerDay == 24
\* timedelta(hours=1): a date later than this is taken for a fetch error
SkewHours == 1
\* timedelta(days=7): a date older than this is always rejected
CeilingDays == 7

\* a date test without the 7-day ceiling
IsRecentNoCeiling(item_date, window_hours) ==
    IF item_date > SkewHours * MinutesPerHour THEN TRUE
    ELSE item_date >= 0 - window_hours * MinutesPerHour

\* a date test that takes a date beyond the skew allowance for too new
IsRecentFutureRejected(item_date, window_hours) ==
    IF item_date > SkewHours * MinutesPerHour THEN FALSE
    ELSE IF item_date < 0 - CeilingDays * HoursPerDay * MinutesPerHour THEN FALSE
    ELSE item_date >= 0 - window_hours * MinutesPerHour

\* the date test of _filter_by_date_and_relevance (is_recent)
IsRecent(item_date, window_hours) ==
    IF item_date > SkewHours * MinutesPerHour THEN TRUE
    ELSE IF item_date < 0 - CeilingDays * HoursPerDay * MinutesPerHour THEN FALSE
    ELSE item_date >= 0 - window_hours * MinutesPerHour

\* the increments of _calculate_relevance, its cap and the threshold
HighWeight == 15
MediumWeight == 5
LowWeight == 2
TitleWeight == 3
SocialWeight == 8
ScoreCeiling == 30
MinRelevance == 3
\* text_lower.split()[:10]
TitleWindow == 10

\* high_priority: brand and product terms
high_priority ==
    <<<<"c", "h", "a", "t", "g", "p", "t">>,
      <<"c", "u", "r", "s", "o", "r">>,
      <<"l", "o", "v", "a", "b", "l", "e">>,
      <<"o", "p", "e", "n", "a", "i">>,
      <<"a", "n", "t", "h", "r", "o", "p", "i", "c">>,
      <<"c", "l", "a", "u", "d", "e">>,
      <<"t", "h", "a", "i", "s", " ", "m", "a", "r", "t", "a", "n">>,
      <<"m", "a", "r", "t", "a", "n">>,
      <<"t", "h", "a", "i", "s", "m", "a", "r", "t", "a", "n">>>>

\* medium_priority_en
medium_priority_en ==
    <<<<"a", "i">>,
      <<"a", "r", "t", "i", "f", "i", "c", "i", "a", "l", " ", "i", "n", "t", "e", "l", "l", "i", "g", "e", "n", "c", "e">>,
      <<"m", "a", "c", "h", "i", "n", "e", " ", "l", "e", "a", "r", "n", "i", "n", "g">>,
      <<"d", "e", "e", "p", " ", "l", "e", "a", "r", "n", "i", "n", "g">>,
      <<"n", "e", "u", "r", "a", "l", " ", "n", "e", "t", "w", "o", "r", "k">>,
      <<"g", "p", "t">>,
      <<"l", "l", "m">>,
      <<"l", "a", "r", "g", "e", " ", "l", "a", "n", "g", "u", "a", "g", "e", " ", "m", "o", "d", "e", "l">>,
      <<"r", "o", "b", "o", "t", "i", "c", "s">>>>

\* medium_priority_pt
medium_priority_pt ==
    <<<<"i", "n", "t", "e", "l", "i", "g", "ê", "n", "c", "i", "a", " ", "a", "r", "t", "i", "f", "i", "c", "i", "a", "l">>,
      <<"a", "p", "r", "e", "n", "d", "i", "z", "a", "d", "o", " ", "m", "á", "q", "u", "i", "n", "a">>,
      <<"a", "p", "r", "e", "n", "d", "i", "z", "a", "d", "o", " ", "p", "r", "o", "f", "u", "n", "d", "o">>,
      <<"r", "e", "d", "e", " ", "n", "e", "u", "r", "a", "l">>,
      <<"i", "a">>,
      <<"m", "a", "c", "h", "i", "n", "e", " ", "l", "e", "a", "r", "n", "i", "n", "g">>,
      <<"d", "e", "e", "p", " ", "l", "e", "a", "r", "n", "i", "n", "g">>,
      <<"r", "o", "b", "ó", "t", "i", "c", "a">>,
      <<"a", "u", "t", "o", "m", "a", "ç", "ã", "o">>,
      <<"t", "e", "c", "n", "o", "l", "o", "g", "i", "a">>,
      <<"i", "n", "o", "v", "a", "ç", "ã", "o">>,
      <<"s", "t", "a", "r", "t", "u", "p">>,
      <<"e", "m", "p", "r", "e", "e", "n", "d", "e", "d", "o", "r", "i", "s", "m", "o">>>>

\* low_priority: the list as written, repeated entries included
low_priority ==
    <<<<"t", "e", "c", "h">>,
      <<"t", "e", "c", "h", "n", "o", "l", "o", "g", "y">>,
      <<"s", "o", "f", "t", "w", "a", "r", "e">>,
      <<"h", "a", "r", "d", "w", "a", "r", "e">>,
      <<"d", "i", "g", "i", "t", "a", "l">>,
      <<"t", "e", "c", "n", "o", "l", "o", "g", "i", "a">>,
      <<"s", "o", "f", "t", "w", "a", "r", "e">>,
      <<"h", "a", "r", "d", "w", "a", "r", "e">>,
      <<"d", "i", "g", "i", "t", "a", "l">>,
      <<"i", "n", "o", "v", "a", "ç", "ã", "o">>>>

\* title_indicators
title_indicators ==
    <<<<"a", "i">>,
      <<"i", "n", "t", "e", "l", "l", "i", "g", "e", "n", "c", "e">>,
      <<"n", "e", "u", "r", "a", "l">>,
      <<"l", "e", "a", "r", "n", "i", "n", "g">>,
      <<"g", "p", "t">>,
      <<"m", "o", "d", "e", "l">>,
      <<"i", "a">>,
      <<"i", "n", "t", "e", "l", "i", "g", "ê", "n", "c", "i", "a">>,
      <<"a", "p", "r", "e", "n", "d", "i", "z", "a", "d", "o">>,
      <<"t", "e", "c", "n", "o", "l", "o", "g", "i", "a">>>>

\* the terms of the social bonus: ['linkedin', 'instagram', 'thais martan']
social_terms ==
    <<<<"l", "i", "n", "k", "e", "d", "i", "n">>,
      <<"i", "n", "s", "t", "a", "g", "r", "a", "m">>,
      <<"t", "h", "a", "i", "s", " ", "m", "a", "r", "t", "a", "n">>>>

\* str.lower() on the letters the texts use
UpperCase ==
    <<"A", "B", "C", "D", "E", "F", "G", "H", "I", "J", "K", "L", "M", "N", "O",
      "P", "Q", "R", "S", "T", "U", "V", "W", "X", "Y", "Z">>
LowerCase ==
    <<"a", "b", "c", "d", "e", "f", "g", "h", "i", "j", "k", "l", "m", "n", "o",
      "p", "q", "r", "s", "t", "u", "v", "w", "x", "y", "z">>
LowerChar(c) ==
    IF \E i \in 1..Len(UpperCase) : UpperCase[i] = c
    THEN LowerCase[CHOOSE i \in 1..Len(UpperCase) : UpperCase[i] = c]
    ELSE c
Lower(text) == [i \in 1..Len(text) |-> LowerChar(text[i])]

\* keyword in text_lower: the keyword occurs as a substring
Contains(text, keyword) ==
    \E i \in 1..(Len(text) - Len(keyword) + 1) :
        SubSeq(text, i, i + Len(keyword) - 1) = keyword

\* how many entries of a keyword list occur in the text (an entry written
\* twice counts twice, as the loop over the list does)
Matches(keywords, text) ==
    Cardinality({k \in 1..Len(keywords) : Contains(text, keywords[k])})

\* how many indicator words are among the words of the title window
TitleMatches(title_words) ==
    Cardinality({k \in 1..Len(title_indicators) :
                    \E j \in 1..Len(title_words) : title_words[j] = title_indicators[k]})

\* text_lower.split()[:10]
TitleWords(text_lower) ==
    LET words == SplitWords(text_lower)
    IN SubSeq(words, 1, Min(TitleWindow, Len(words)))

\* a score without the final min(score, 3.0)
Uncapped(score) == score

\* min(score, 3.0)
Capped(score) == Min(score, ScoreCeiling)

\* _calculate_relevance
CalculateRelevance(text) ==
    LET text_lower == Lower(text)
        score == HighWeight * Matches(high_priority, text_lower)
                 + MediumWeight * Matches(medium_priority_en, text_lower)
                 + MediumWeight * Matches(medium_priority_pt, text_lower)
                 + LowWeight * Matches(low_priority, text_lower)
                 + TitleWeight * TitleMatches(TitleWords(text_lower))
                 + (IF Matches(social_terms, text_lower) > 0 THEN SocialWeight ELSE 0)
    IN Capped(score)

\* the title of an entry whose feed gives none: None in place of a string
NoneValue == <<"None">>

\* item.title + " " + item.summary
ItemText(item) == item.title \o <<" ">> \o item.summary

\* the concatenation raises TypeError when a field is not a string; the
\* line is reached for the first item that passes the date test
FilterRaises(news_items, window_hours) ==
    \E i \in 1..Len(news_items) :
        /\ IsRecent(news_items[i].published_at, window_hours)
        /\ NoneValue \in {news_items[i].title, news_items[i].summary}

\* the loop of _filter_by_date_and_relevance over news_items
RECURSIVE FilterLoop(_, _, _)
FilterLoop(rest, filtered_so_far, window_hours) ==
    IF rest = <<>> THEN filtered_so_far
    ELSE LET item == Head(rest)
             relevance == CalculateRelevance(ItemText(item))
         IN IF IsRecent(item.published_at, window_hours) /\ relevance > MinRelevance
            THEN FilterLoop(Tail(rest),
                            Append(filtered_so_far,
                                   [item EXCEPT !.relevance_score = relevance]),
                            window_hours)
            ELSE FilterLoop(Tail(rest), filtered_so_far, window_hours)

\* a result left in the order of discovery
SortNothing(items) == items

\* filtered.sort(key=lambda x: x.relevance_score, reverse=True)
SortByRelevance(items) == SortLoop(items, <<>>)

\* _filter_by_date_and_relevance
FilterByDateAndRelevance(news_items, window_hours) ==
    SortByRelevance(FilterLoop(news_items, <<>>, window_hours))

\* collect_all(): the three fetcher categories in the order they are called
Categories == <<"api", "rss", "web">>

\* the categories whose call stands in a try / except Exception
Guarded == {"api", "rss", "web"}

\* what a fetcher did: it raised, or it returned a list of items
Raises == [raised |-> TRUE, items |-> <<>>]
Returns(items) == [raised |-> FALSE, items |-> items]

\* what a category adds to all_news: nothing when its fetcher raised
CategoryItems(outcome, c) == IF outcome[c].raised THEN <<>> ELSE outcome[c].items

\* all_news after the three extend() calls
AllNews(outcome) ==
    CategoryItems(outcome, "api") \o CategoryItems(outcome, "rss")
        \o CategoryItems(outcome, "web")

\* whether an exception leaves collect_all(): one of a fetcher that no
\* try / except holds, or one of the filter, which is called outside them
CollectAllRaises(outcome, window_hours) ==
    \/ \E i \in 1..Len(Categories) :
          outcome[Categories[i]].raised /\ Categories[i] \notin Guarded
    \/ FilterRaises(AllNews(outcome), window_hours)

\* the item _collect_from_apis builds from _fetch_openai_models()
ApiText ==
    [title   |-> <<"O", "p", "e", "n", "A", "I", " ", "M", "o", "d", "e", "l", "s",
          " ", "U", "p", "d", "a", "t", "e">>,
     summary |-> <<"A", "v", "a", "i", "l", "a", "b", "l", "e", " ", "m", "o", "d",
          "e", "l", "s", ":", " ", "g", "p", "t", "-", "4", ",",
          " ", "g", "p", "t", "-", "4", "-", "t", "u", "r", "b",
          "o", ",", " ", "g", "p", "t", "-", "3", ".", "5", "-",
          "t", "u", "r", "b", "o", ",", " ", "d", "a", "l", "l",
          "-", "e", "-", "3", ",", " ", "w", "h", "i", "s", "p",
          "e", "r", "-", "1", ".", ".", ".">>]

\* an entry with an empty title and an empty summary: score 0
TextNone ==
    [title   |-> <<>>,
     summary |-> <<>>]

\* one low-priority term: score 0.2, below the threshold
TextTech ==
    [title   |-> <<"T", "e", "c", "h">>,
     summary |-> <<"x">>]

\* one title indicator: score 0.3, the threshold itself
TextModel ==
    [title   |-> <<"N", "e", "w", " ", "m", "o", "d", "e", "l">>,
     summary |-> <<"o", "u", "t">>]

\* two low-priority terms: score 0.4
TextTechnology ==
    [title   |-> <<"T", "e", "c", "h", "n", "o", "l", "o", "g", "y">>,
     summary |-> <<"x">>]

\* a medium term that is also a title indicator: score 0.8
TextAI ==
    [title   |-> <<"A", "I">>,
     summary |-> <<"l", "a", "b">>]

\* an entry whose title is None and whose summary is a string
TextUntitled ==
    [title   |-> NoneValue,
     summary |-> <<"A", "I">>]


\* a NewsItem as a fetcher builds it (relevance_score defaults to 0.0)
FetchedItem(text, url, source, published_at) ==
    [title |-> text.title, summary |-> text.summary, url |-> url,
     source |-> source, published_at |-> published_at, relevance_score |-> 0]

\* retention windows (hours) a configuration can hold: around zero, the
\* default, the ceiling itself and a window longer than the ceiling
FilterWindows ==
    ((0 - MaxSmallWindow)..MaxSmallWindow)
        \cup {DefaultMaxAgeHours, CeilingDays * HoursPerDay,
              (CeilingDays + ExtraDays) * HoursPerDay}

\* the dates (minutes from now) at which the date test can change its
\* answer, and the ones the scenarios name (30 minutes ahead, 10 days ago)
DateBoundaries ==
    {2 * SkewHours * MinutesPerHour, SkewHours * MinutesPerHour,
     (SkewHours * MinutesPerHour) \div 2, 0,
     0 - (CeilingDays + ExtraDays) * HoursPerDay * MinutesPerHour}
        \cup {0 - w * MinutesPerHour : w \in FilterWindows}

PublishedDates == {b + d : b \in DateBoundaries, d \in (0 - MaxOffset)..MaxOffset}

FilterTexts == {TextNone, TextTech, TextModel, TextTechnology, TextAI, TextUntitled}

\* the one-item lists handed to _filter_by_date_and_relevance
FilterLists ==
    {<<FetchedItem(t, 1, "rss", d)>> : t \in FilterTexts, d \in PublishedDates}

(***************************************************************************)
(* TelegramSender                                                          *)
(***************************************************************************)
\* max_retries: int = 3
DefaultMaxRetries == 3

\* how one attempt of _send_single_message can end:
\*   "ok"                 status 200 and result.get('ok')
\*   "api_error"          status 200 and ok false
\*   "http_error"         another status code
\*   "request_exception"  session.post raised RequestException
\*   "json_error"         response.json() raised JSONDecodeError
AttemptOutcomes == {"ok", "api_error", "http_error", "request_exception", "json_error"}

PostEvent(outcome) == [kind |-> "post", outcome |-> outcome, seconds |-> 0]
SleepEvent(seconds) == [kind |-> "sleep", outcome |-> "none", seconds |-> seconds]

\* wait_time = 2 ** attempt
Backoff(attempt) == 2 ^ attempt

\* a loop that waits after every failed attempt, the last included
WaitsAlways(attempt, retries) == TRUE

\* if attempt < self.max_retries - 1
WaitsAfter(attempt, retries) == attempt < retries - 1

\* the loop of _send_single_message from `attempt` on; responses[k] is how
\* the k-th post would end.  The value is what the method returns and the
\* posts and sleeps it made.
RECURSIVE SendLoop(_, _, _, _)
SendLoop(responses, attempt, retries, made) ==
    IF attempt >= retries THEN [result |-> FALSE, events |-> made]
    ELSE LET outcome == responses[attempt + 1]
             posted  == Append(made, PostEvent(outcome))
         IN IF outcome = "ok" THEN [result |-> TRUE, events |-> posted]
            ELSE SendLoop(responses, attempt + 1, retries,
                          IF WaitsAfter(attempt, retries)
                          THEN Append(posted, SleepEvent(Backoff(attempt)))
                          ELSE posted)

\* _send_single_message
SendSingleMessage(responses, retries) == SendLoop(responses, 0, retries, <<>>)

\* a TelegramSender with the default retry count that has sent nothing
IdleSender ==
    /\ max_retries = DefaultMaxRetries
    /\ events = <<>>
    /\ sent = "none"

(***************************************************************************)
(* Actions of a session: a ContentProcessor is constructed on the state    *)
(* file, candidate lists are collected and process() is called on them.    *)
(***************************************************************************)
Init ==
    /\ file = AbsentFile
    /\ processed_urls = {}
    /\ raw_news = <<>>
    /\ final_items = <<>>
    /\ log = <<>>
    /\ saved = "none"
    /\ session = 1
    /\ collected = FALSE
    /\ formatting = DefaultConfig
    /\ messages = "none"
    /\ pc = "session"
    /\ delivered = <<>>
    /\ error = "none"
    /\ undelivered = {}
    /\ IdleCollector
    /\ IdleSender
    /\ NoCredentials
    /\ DefaultCap

\* a process() that drops the duplicates from the list it was given
ListDeduplicatedInPlace(news_items) == RemoveDuplicates(news_items)

\* the caller's list once process() has returned: every step builds a list
\* of its own (lines 51-59, 63-69, sorted() on line 74, the slice on line 42)
\* and none assigns to an item
ListAfterProcess(news_items) == news_items

\* the list format_messages() was given, once it has returned: the items
\* are read and never assigned to
ListAfterFormat(news_items) == news_items

\* ContentProcessor.__init__ in a new run of the program
NewProcessor ==
    /\ session < MaxSessions
    /\ session' = session + 1
    /\ processed_urls' = LoadProcessedUrls(file)
    /\ raw_news' = <<>>
    /\ final_items' = <<>>
    /\ log' = <<>>
    /\ saved' = "none"
    /\ collected' = FALSE
    /\ UNCHANGED <<file, fmtVars, mainVars>>
    /\ UNCHANGED idleVars

\* the caller gets the list it will hand to process(), once in a session
\* (main and test_pipeline: raw_news = collector.collect_all())
Collect ==
    /\ ~collected
    /\ \E p \in UrlPatterns, q \in ScorePatterns, n \in 0..MaxLen :
           raw_news' = CandidateList(p, q, n)
    /\ collected' = TRUE
    /\ UNCHANGED <<file, processed_urls, final_items, log, saved, session, fmtVars,
                   mainVars>>
    /\ UNCHANGED idleVars

\* processor.process(raw_news)
Process ==
    /\ collected
    /\ Len(log) < MaxCalls
    /\ LET out == ProcessOutput(raw_news, processed_urls)
           now == AddProcessed(processed_urls, out)
       IN /\ final_items' = out
          /\ processed_urls' = now
          /\ \E r \in SaveResults(file, now) :
                 /\ file' = r.file
                 /\ saved' = r.saved
          /\ log' = Append(log, [start |-> processed_urls, out |-> out])
    /\ raw_news' = ListAfterProcess(raw_news)
    /\ UNCHANGED <<session, collected, fmtVars, mainVars>>
    /\ UNCHANGED idleVars

Next == NewProcessor \/ Collect \/ Process

Spec == Init /\ [][Next]_vars

(***************************************************************************)
(* process() called again and again on the list of one collection          *)
(***************************************************************************)
\* the state files a session can start from: none, or one with a key
DrainFiles == {AbsentFile, [kind |-> "document", entries |-> <<2>>]}

\* a ContentProcessor that has loaded its state file, and the list the
\* caller holds
InitDrain ==
    /\ file \in DrainFiles
    /\ processed_urls = LoadProcessedUrls(file)
    /\ \E p \in UrlPatterns, q \in ScorePatterns, n \in 0..MaxLen :
           raw_news = CandidateList(p, q, n)
    /\ final_items = <<>>
    /\ log = <<>>
    /\ saved = "none"
    /\ session = 1
    /\ collected = TRUE
    /\ formatting = DefaultConfig
    /\ messages = "none"
    /\ pc = "drain"
    /\ delivered = <<>>
    /\ error = "none"
    /\ undelivered = {}
    /\ IdleCollector
    /\ IdleSender
    /\ NoCredentials
    /\ DefaultCap

\* processor.process(raw_news), once more on the same list
ProcessAgain ==
    /\ pc = "drain"
    /\ Len(log) < MaxDrainCalls
    /\ LET out == ProcessOutput(raw_news, processed_urls)
           now == AddProcessed(processed_urls, out)
       IN /\ final_items' = out
          /\ processed_urls' = now
          /\ \E r \in SaveResults(file, now) :
                 /\ file' = r.file
                 /\ saved' = r.saved
          /\ log' = Append(log, [start |-> processed_urls, out |-> out])
    /\ raw_news' = ListAfterProcess(raw_news)
    /\ UNCHANGED <<session, collected, fmtVars, mainVars>>
    /\ UNCHANGED idleVars

SpecDrain == InitDrain /\ [][ProcessAgain]_vars

(***************************************************************************)
(* format_messages() on its own: any list of items, any configuration      *)
(***************************************************************************)
InitFormatter ==
    /\ file = AbsentFile
    /\ processed_urls = {}
    /\ raw_news = <<>>
    /\ final_items \in FormatterLists
    /\ log = <<>>
    /\ saved = "none"
    /\ session = 1
    /\ collected = FALSE
    /\ formatting \in Configs
    /\ messages = "none"
    /\ pc = "formatter"
    /\ delivered = <<>>
    /\ error = "none"
    /\ undelivered = {}
    /\ IdleCollector
    /\ IdleSender
    /\ NoCredentials
    /\ DefaultCap

\* messages = formatter.format_messages(processed_news)
Format ==
    /\ messages = "none"
    /\ messages' = FormatMessages(final_items, formatting)
    /\ final_items' = ListAfterFormat(final_items)
    /\ UNCHANGED <<file, processed_urls, raw_news, log, saved, session, collected,
                   formatting, mainVars>>
    /\ UNCHANGED idleVars

SpecFormatter == InitFormatter /\ [][Format]_vars

(***************************************************************************)
(* format_messages() on lists that hold malformed items                    *)
(***************************************************************************)
\* items with and without a url, under a summary width that shorten()
\* accepts and one that it refuses
OddItems ==
    [title : Titles, summary : {<<"s", "s", " ", "s", "s", "s">>},
     url : {NoUrl} \cup 1..2, source : {"rss"}, relevance_score : {1}]
OddLists == UNION {[1..n -> OddItems] : n \in 0..MaxItems}
OddConfigs ==
    [max_message_length : Budgets,
     summary_max_length : {Len(Placeholder) - 1, SummaryWidth},
     format_template    : {DefaultTemplate}]

InitFallback ==
    /\ file = AbsentFile
    /\ processed_urls = {}
    /\ raw_news = <<>>
    /\ final_items \in OddLists
    /\ log = <<>>
    /\ saved = "none"
    /\ session = 1
    /\ collected = FALSE
    /\ formatting \in OddConfigs
    /\ messages = "none"
    /\ pc = "formatter"
    /\ delivered = <<>>
    /\ error = "none"
    /\ undelivered = {}
    /\ IdleCollector
    /\ IdleSender
    /\ NoCredentials
    /\ DefaultCap

SpecFallback == InitFallback /\ [][Format]_vars

(***************************************************************************)
(* main(): the runs of the pipeline, one after the other on the same state *)
(* file.  The log rotation and the health check at the top of main() catch *)
(* their own exceptions and touch none of this state.                      *)
(***************************************************************************)
\* what collect_all() returns in a run: sorted by score, descending
RunLists ==
    {CandidateList(p, q, n) : p \in {"distinct", "pairs"},
                              q \in SortedScorePatterns, n \in 0..MaxRunLen}

\* the budgets a run is configured with: the default and the smallest tried
RunConfigs == {DefaultConfig, [DefaultConfig EXCEPT !.max_message_length = BudgetUnit]}

\* a send_messages whose result is that of the last block
SendMessagesLast(results) == results[Len(results)]

\* TelegramSender.send_messages: every block is handed to
\* _send_single_message, and the result is True when none of them failed
SendMessages(results) == \A i \in 1..Len(results) : results[i]

(***************************************************************************)
(* The credentials of main(): TELEGRAM_BOT_TOKEN and TELEGRAM_CHAT_ID as   *)
(* sequences of characters                                                 *)
(***************************************************************************)
\* \d{5,}
MinIdDigits == 5
\* [A-Za-z0-9_-]{30,}
MinSecretLen == 30

AsciiDigits == {"0", "1", "2", "3", "4", "5", "6", "7", "8", "9"}
AsciiLetters == Range(UpperCase) \cup Range(LowerCase)
\* a decimal digit outside ASCII (ARABIC-INDIC DIGIT THREE, written by its
\* code point): str.isdigit, str.isalnum and \d accept it
OtherDecimals == {"U+0663"}
\* a digit that is not decimal: str.isdigit and str.isalnum accept it, \d does not
Superscripts == {"²"}
\* a letter outside ASCII: str.isalnum accepts it
OtherLetters == {"é"}

\* ch.isdigit()
IsDigit(ch) == ch \in AsciiDigits \cup OtherDecimals \cup Superscripts
\* ch.isalnum()
IsAlnum(ch) == IsDigit(ch) \/ ch \in AsciiLetters \cup OtherLetters
\* \d of a str pattern
MatchesDigit(ch) == ch \in AsciiDigits \cup OtherDecimals
\* [A-Za-z0-9_-]
MatchesSecret(ch) == ch \in AsciiLetters \cup AsciiDigits \cup {"_", "-"}

\* ''.join(ch for ch in raw_token if ch.isalnum() or ch in [':', '-', '_'])
SanitizeToken(raw) == SelectSeq(raw, LAMBDA ch : IsAlnum(ch) \/ ch \in {":", "-", "_"})
\* ''.join(ch for ch in raw_chat if ch.isdigit() or ch == '-')
SanitizeChat(raw) == SelectSeq(raw, LAMBDA ch : IsDigit(ch) \/ ch = "-")

\* re.match(r'^\d{5,}:[A-Za-z0-9_-]{30,}$', telegram_token) is not None
\* ($ also matches before a final newline, which no sanitized value has)
TokenOk(token) ==
    \E k \in 1..Len(token) :
        /\ token[k] = ":"
        /\ k - 1 >= MinIdDigits
        /\ \A i \in 1..(k - 1) : MatchesDigit(token[i])
        /\ Len(token) - k >= MinSecretLen
        /\ \A i \in (k + 1)..Len(token) : MatchesSecret(token[i])

\* re.match(r'^-?\d{5,}$', telegram_chat_id) is not None
ChatOk(chat) ==
    LET digits == IF chat # <<>> /\ chat[1] = "-" THEN Tail(chat) ELSE chat
    IN /\ Len(digits) >= MinIdDigits
       /\ \A i \in 1..Len(digits) : MatchesDigit(digits[i])

\* a check that looks at the token only
TokenAccepted(token, chat) == token # <<>> /\ TokenOk(token)

\* the negation of the test of line 115:
\* not telegram_token or not telegram_chat_id or not token_ok or not chat_ok
CredentialsAccepted(token, chat) ==
    /\ token # <<>>
    /\ chat # <<>>
    /\ TokenOk(token)
    /\ ChatOk(chat)

Repeat(ch, n) == [i \in 1..n |-> ch]

\* a well-formed token and variations of it: unset, wrapped in white space,
\* one digit or one character short, without the colon, with a letter
\* outside ASCII, with a character that sanitization removes, with a
\* second colon
GoodToken == Repeat("1", MinIdDigits) \o <<":">> \o Repeat("a", MinSecretLen)
RawTokens ==
    { <<>>,
      GoodToken,
      <<" ">> \o GoodToken \o <<"\n">>,
      Tail(GoodToken),
      SubSeq(GoodToken, 1, Len(GoodToken) - 1),
      SelectSeq(GoodToken, LAMBDA ch : ch # ":"),
      GoodToken \o <<"é">>,
      SubSeq(GoodToken, 1, Len(GoodToken) - 1) \o <<"!">>,
      GoodToken \o <<":">> }

\* a well-formed chat id and variations of it: unset, white space only,
\* negative with a final newline, one digit short, with a digit outside
\* ASCII, with a superscript digit, with the sign at the end
GoodChat == Repeat("1", MinIdDigits)
RawChats ==
    { <<>>,
      <<" ", "\n">>,
      GoodChat,
      <<"-">> \o GoodChat \o <<"\n">>,
      Tail(GoodChat),
      Tail(GoodChat) \o <<"U+0663">>,
      GoodChat \o <<"²">>,
      GoodChat \o <<"-">> }

\* how an attempt to post a block of a run ends: answered ok, or failed
\* (SpecSender has every kind of failure; the kind makes no difference to
\* the result)
RunOutcomes == {"ok", "request_exception"}

InitMain ==
    /\ file = AbsentFile
    /\ processed_urls = {}
    /\ raw_news = <<>>
    /\ final_items = <<>>
    /\ log = <<>>
    /\ saved = "none"
    /\ session = 1
    /\ collected = FALSE
    /\ formatting = DefaultConfig
    /\ messages = "none"
    /\ pc = "start"
    /\ delivered = <<>>
    /\ error = "none"
    /\ undelivered = {}
    /\ IdleCollector
    /\ IdleSender
    /\ raw_token \in RawTokens
    /\ raw_chat \in RawChats
    /\ DefaultCap

\* main(), lines 93-119: load_config(), the components (ContentProcessor()
\* loads the state file), then the check of the sanitized credentials
MainStart ==
    /\ pc = "start"
    /\ \E config_ok \in BOOLEAN, config \in RunConfigs :
         LET telegram_token   == SanitizeToken(raw_token)
             telegram_chat_id == SanitizeChat(raw_chat)
         IN
         IF ~config_ok
         THEN /\ pc' = "failed"
              /\ error' = "config"
              /\ UNCHANGED <<procVars, fmtVars, delivered, undelivered>>
         ELSE /\ processed_urls' = LoadProcessedUrls(file)
              /\ formatting' = config
              /\ IF CredentialsAccepted(telegram_token, telegram_chat_id)
                 THEN pc' = "collect" /\ error' = "none"
                 ELSE pc' = "failed" /\ error' = "credentials"
              /\ UNCHANGED <<file, raw_news, final_items, log, saved, session,
                             collected, messages, delivered, undelivered>>
    /\ UNCHANGED idleVars

\* raw_news = collector.collect_all()
MainCollect ==
    /\ pc = "collect"
    /\ raw_news' \in RunLists
    /\ collected' = TRUE
    /\ pc' = "process"
    /\ UNCHANGED <<file, processed_urls, final_items, log, saved, session,
                   fmtVars, delivered, error, undelivered>>
    /\ UNCHANGED idleVars

\* processed_news = processor.process(raw_news)
MainProcess ==
    /\ pc = "process"
    /\ LET out == ProcessOutput(raw_news, processed_urls)
           now == AddProcessed(processed_urls, out)
       IN /\ final_items' = out
          /\ processed_urls' = now
          /\ \E r \in SaveResults(file, now) :
                 /\ file' = r.file
                 /\ saved' = r.saved
          /\ log' = Append(log, [start |-> processed_urls, out |-> out])
    /\ raw_news' = ListAfterProcess(raw_news)
    /\ pc' = "format"
    /\ UNCHANGED <<session, collected, fmtVars, delivered, error, undelivered>>
    /\ UNCHANGED idleVars

\* messages = formatter.format_messages(processed_news)
MainFormat ==
    /\ pc = "format"
    /\ messages' = FormatMessages(final_items, formatting)
    /\ final_items' = ListAfterFormat(final_items)
    /\ pc' = "send"
    /\ UNCHANGED <<file, processed_urls, raw_news, log, saved, session, collected,
                   formatting, delivered, error, undelivered>>
    /\ UNCHANGED idleVars

\* lines 137-146: the blocks are sent; a failed block raises RuntimeError
MainSend ==
    /\ pc = "send"
    /\ messages # <<>>
    /\ \E responses \in [1..Len(messages) -> [1..max_retries -> RunOutcomes]] :
         LET results == [i \in 1..Len(messages) |->
                            SendSingleMessage(responses[i], max_retries).result]
         IN
         /\ delivered' = results
         /\ IF SendMessages(results)
            THEN pc' = "completed" /\ error' = "none"
            ELSE pc' = "failed" /\ error' = "send"
    /\ UNCHANGED <<procVars, fmtVars, undelivered>>
    /\ UNCHANGED idleVars

\* lines 147-158: nothing to send; a heartbeat goes out if SEND_EMPTY_BRIEFING
MainNoNews ==
    /\ pc = "send"
    /\ messages = <<>>
    /\ \E send_empty \in BOOLEAN, responses \in [1..max_retries -> RunOutcomes] :
         LET result == SendSingleMessage(responses, max_retries).result IN
         IF send_empty
         THEN /\ delivered' = <<result>>
              /\ IF SendMessages(<<result>>)
                 THEN pc' = "completed" /\ error' = "none"
                 ELSE pc' = "failed" /\ error' = "heartbeat"
         ELSE /\ delivered' = <<>>
              /\ pc' = "completed"
              /\ error' = "none"
    /\ UNCHANGED <<procVars, fmtVars, undelivered>>
    /\ UNCHANGED idleVars

\* the scheduler starts the next run once this one has ended
NextRun ==
    /\ pc \in {"completed", "failed"}
    /\ session < MaxRuns
    /\ session' = session + 1
    /\ processed_urls' = {}
    /\ raw_news' = <<>>
    /\ final_items' = <<>>
    /\ log' = <<>>
    /\ saved' = "none"
    /\ collected' = FALSE
    /\ formatting' = DefaultConfig
    /\ messages' = "none"
    /\ pc' = "start"
    /\ delivered' = <<>>
    /\ error' = "none"
    /\ undelivered' = IF error = "send"
                      THEN undelivered \cup UrlsOf(final_items)
                      ELSE undelivered
    /\ UNCHANGED file
    /\ UNCHANGED idleVars

NextMain ==
    \/ MainStart
    \/ MainCollect
    \/ MainProcess
    \/ MainFormat
    \/ MainSend
    \/ MainNoNews
    \/ NextRun

SpecMain == InitMain /\ [][NextMain]_vars

(***************************************************************************)
(* Runs of main() under a configured item cap, with acceptable credentials *)
(***************************************************************************)
\* the values of news.max_news_per_run tried: caps that the candidate
\* lists of a run can reach, and the batch size of process()
ItemCaps == (1..MaxRunLen) \cup {MaxBatch}

InitCap ==
    /\ file = AbsentFile
    /\ processed_urls = {}
    /\ raw_news = <<>>
    /\ final_items = <<>>
    /\ log = <<>>
    /\ saved = "none"
    /\ session = 1
    /\ collected = FALSE
    /\ formatting = DefaultConfig
    /\ messages = "none"
    /\ pc = "start"
    /\ delivered = <<>>
    /\ error = "none"
    /\ undelivered = {}
    /\ IdleCollector
    /\ IdleSender
    /\ raw_token = GoodToken
    /\ raw_chat = GoodChat
    /\ max_news_per_run \in ItemCaps

SpecCap == InitCap /\ [][NextMain]_vars

(***************************************************************************)
(* ContentProcessor() on a state file of any content                       *)
(***************************************************************************)
EntryLists ==
    UNION {[1..n -> 1..MaxEntries] : n \in 0..MaxEntries}

StateFiles ==
    {[kind |-> k, entries |-> e] : k \in FileKinds \ {"absent", "unreadable"},
                                   e \in EntryLists}
        \cup {AbsentFile, [kind |-> "unreadable", entries |-> <<>>]}

InitLoad ==
    /\ file \in StateFiles
    /\ processed_urls = {}
    /\ raw_news = <<>>
    /\ final_items = <<>>
    /\ log = <<>>
    /\ saved = "none"
    /\ session = 0
    /\ collected = FALSE
    /\ formatting = DefaultConfig
    /\ messages = "none"
    /\ pc = "load"
    /\ delivered = <<>>
    /\ error = "none"
    /\ undelivered = {}
    /\ IdleCollector
    /\ IdleSender
    /\ NoCredentials
    /\ DefaultCap

\* ContentProcessor.__init__
Construct ==
    /\ pc = "load"
    /\ processed_urls' = LoadProcessedUrls(file)
    /\ error' = IF ConstructorRaises(file) THEN LoadException(file) ELSE "none"
    /\ session' = session + 1
    /\ pc' = "loaded"
    /\ UNCHANGED <<file, raw_news, final_items, log, saved, collected, fmtVars,
                   delivered, undelivered>>
    /\ UNCHANGED idleVars

SpecLoad == InitLoad /\ [][Construct]_vars

(***************************************************************************)
(* _filter_by_date_and_relevance() on its own: one item of any date and    *)
(* text, under any retention window                                        *)
(***************************************************************************)
InitFilter ==
    /\ file = AbsentFile
    /\ processed_urls = {}
    /\ raw_news = <<>>
    /\ final_items = <<>>
    /\ log = <<>>
    /\ saved = "none"
    /\ session = 0
    /\ collected = FALSE
    /\ formatting = DefaultConfig
    /\ messages = "none"
    /\ pc = "filter"
    /\ delivered = <<>>
    /\ error = "none"
    /\ undelivered = {}
    /\ max_age_hours \in FilterWindows
    /\ fetched = "none"
    /\ all_news \in FilterLists
    /\ filtered = "none"
    /\ scored = <<>>
    /\ IdleSender
    /\ NoCredentials
    /\ DefaultCap

\* self._filter_by_date_and_relevance(all_news)
Filter ==
    /\ pc = "filter"
    /\ IF FilterRaises(all_news, max_age_hours)
       THEN /\ pc' = "raised"
            /\ error' = "TypeError"
            /\ UNCHANGED filtered
       ELSE /\ pc' = "filtered"
            /\ error' = "none"
            /\ filtered' = FilterByDateAndRelevance(all_news, max_age_hours)
    /\ UNCHANGED <<procVars, fmtVars, delivered, undelivered, max_age_hours,
                   fetched, all_news, scored>>
    /\ UNCHANGED sendVars
    /\ UNCHANGED envVars
    /\ UNCHANGED confVars

SpecFilter == InitFilter /\ [][Filter]_vars

(***************************************************************************)
(* The filter on items of the social-profile scrapers and of feeds         *)
(***************************************************************************)
\* site_config['name'] of the profile that is scraped
SiteName == <<"p">>

\* f"{title} - {site_config['name']}"
WithSiteName(title) == title \o <<" ", "-", " ">> \o SiteName

LinkedinPost ==
    <<"L", "i", "n", "k", "e", "d", "I", "n", " ", "P", "o", "s", "t">>
LinkedinActivity ==
    <<"L", "i", "n", "k", "e", "d", "I", "n", " ", "A", "c", "t", "i", "v",
      "i", "t", "y">>
ActivitySummary ==
    <<"N", "o", "v", "a", " ", "a", "t", "i", "v", "i", "d", "a", "d", "e",
      " ", "d", "e", "t", "e", "c", "t", "a", "d", "a", " ", "n", "o", " ",
      "p", "e", "r", "f", "i", "l", " ", "d", "e", " ">>
InstagramActivity ==
    <<"I", "n", "s", "t", "a", "g", "r", "a", "m", " ", "A", "c", "t", "i",
      "v", "i", "t", "y">>
InstagramPost ==
    <<"I", "n", "s", "t", "a", "g", "r", "a", "m", " ", "P", "o", "s", "t">>
NoDescription ==
    <<"A", "t", "i", "v", "i", "d", "a", "d", "e", " ", "d", "e", "t", "e",
      "c", "t", "a", "d", "a">>
EmptyDescription ==
    <<"N", "o", "v", "a", " ", "a", "t", "i", "v", "i", "d", "a", "d", "e",
      " ", "n", "o", " ", "I", "n", "s", "t", "a", "g", "r", "a", "m">>

\* what _scrape_linkedin_profile builds: an item per post found, or one
\* item saying that there is activity on the profile (u is the address of
\* the page)
LinkedinTexts ==
    {[title |-> WithSiteName(LinkedinPost), summary |-> <<"h", "e", "l", "l", "o">>],
     [title |-> WithSiteName(LinkedinActivity),
      summary |-> ActivitySummary \o SiteName
                      \o <<".", " ", "V", "i", "s", "i", "t", "e", ":", " ", "u">>]}

\* a meta tag of the profile page: not there, there without a content
\* attribute, or there with the text it carries
PageTitles == {"absent", "bare", "text"}
PageDescriptions == {"absent", "bare", "text"}

\* what _scrape_instagram_profile builds from og:title and description
InstagramText(meta_title, meta_desc) ==
    [title   |-> WithSiteName(CASE meta_title = "absent" -> InstagramActivity
                                [] meta_title = "bare"   -> InstagramPost
                                [] OTHER -> <<"T", "h", "a", "i", "s">>),
     summary |-> CASE meta_desc = "absent" -> NoDescription
                   [] meta_desc = "bare"   -> EmptyDescription
                   [] OTHER -> <<"p", "h", "o", "t", "o", "s">>]

\* if meta_desc or meta_title
InstagramTexts ==
    {InstagramText(t, d) : t \in PageTitles, d \in PageDescriptions} \
        {InstagramText("absent", "absent")}

\* an entry of a feed that names a social network
TextMention ==
    [title   |-> <<"A", "I">>,
     summary |-> <<"o", "n", " ", "I", "n", "s", "t", "a", "g", "r", "a", "m">>]

LinkedinSource == "LinkedIn (p)"
InstagramSource == "Instagram (p)"
SocialSources == {LinkedinSource, InstagramSource}

\* the items of one collection, by what built them; all are dated now
SocialCandidates ==
    {[text |-> t, source |-> LinkedinSource] : t \in LinkedinTexts}
        \cup {[text |-> t, source |-> InstagramSource] : t \in InstagramTexts}
        \cup {[text |-> t, source |-> "rss"] : t \in {TextAI, TextMention, TextTech}}

SocialLists ==
    UNION {{[i \in 1..n |-> FetchedItem(l[i].text, i, l[i].source, 0)] :
               l \in [1..n -> SocialCandidates]} : n \in 1..MaxSocialItems}

InitSocial ==
    /\ file = AbsentFile
    /\ processed_urls = {}
    /\ raw_news = <<>>
    /\ final_items = <<>>
    /\ log = <<>>
    /\ saved = "none"
    /\ session = 0
    /\ collected = FALSE
    /\ formatting = DefaultConfig
    /\ messages = "none"
    /\ pc = "filter"
    /\ delivered = <<>>
    /\ error = "none"
    /\ undelivered = {}
    /\ max_age_hours = DefaultMaxAgeHours
    /\ fetched = "none"
    /\ all_news \in SocialLists
    /\ filtered = "none"
    /\ scored = <<>>
    /\ IdleSender
    /\ NoCredentials
    /\ DefaultCap

SpecSocial == InitSocial /\ [][Filter]_vars

(***************************************************************************)
(* collect_all(): each fetcher category raises or returns a list of items  *)
(***************************************************************************)
StaleDate == 0 - (CeilingDays + ExtraDays) * HoursPerDay * MinutesPerHour

\* title, summary and date of the items a scraped page yields: the title
\* and the summary are strings, empty ones included
PageContents ==
    {[text |-> t, published_at |-> 0] :
        t \in {TextNone, TextTech, TextModel, TextTechnology, TextAI}}
        \cup {[text |-> TextAI, published_at |-> StaleDate]}

\* those of the items a feed yields: title=entry.title is whatever the feed
\* parser holds for the entry, None included
FeedContents == PageContents \cup {[text |-> TextUntitled, published_at |-> 0]}

\* a list of n items of one source; their URLs number them from `first`
SourceLists(source, first, longest, contents) ==
    UNION {{[i \in 1..n |-> FetchedItem(c[i].text, first + i - 1, source,
                                         c[i].published_at)] :
               c \in [1..n -> contents]} : n \in 0..longest}

\* _collect_from_apis: the one item built from the list of models, dated now
ApiItems == <<FetchedItem(ApiText, 1, "api", 0)>>

\* what the three fetchers can do in one collect_all()
FetchOutcomes ==
    [api : {Raises, Returns(ApiItems)},
     rss : {Raises}
              \cup {Returns(l) : l \in SourceLists("rss", 2, MaxFeedItems, FeedContents)},
     web : {Raises}
              \cup {Returns(l) : l \in SourceLists("web", 2 + MaxFeedItems, 1, PageContents)}]

InitCollector ==
    /\ file = AbsentFile
    /\ processed_urls = {}
    /\ raw_news = <<>>
    /\ final_items = <<>>
    /\ log = <<>>
    /\ saved = "none"
    /\ session = 0
    /\ collected = FALSE
    /\ formatting = DefaultConfig
    /\ messages = "none"
    /\ pc = "collector"
    /\ delivered = <<>>
    /\ error = "none"
    /\ undelivered = {}
    /\ IdleCollector
    /\ IdleSender
    /\ NoCredentials
    /\ DefaultCap

\* raw_news = collector.collect_all()
CollectAll ==
    /\ pc = "collector"
    /\ \E outcome \in FetchOutcomes :
         /\ fetched' = outcome
         /\ IF CollectAllRaises(outcome, max_age_hours)
            THEN /\ pc' = "raised"
                 /\ error' = "collect_all"
                 /\ all_news' = AllNews(outcome)
                 /\ UNCHANGED <<filtered, raw_news>>
            ELSE /\ pc' = "collected"
                 /\ error' = "none"
                 /\ all_news' = AllNews(outcome)
                 /\ filtered' = FilterByDateAndRelevance(AllNews(outcome), max_age_hours)
                 /\ raw_news' = FilterByDateAndRelevance(AllNews(outcome), max_age_hours)
    /\ UNCHANGED <<file, processed_urls, final_items, log, saved, session, collected,
                   fmtVars, delivered, undelivered, max_age_hours, scored>>
    /\ UNCHANGED sendVars
    /\ UNCHANGED envVars
    /\ UNCHANGED confVars

SpecCollector == InitCollector /\ [][CollectAll]_vars

(***************************************************************************)
(* _collect_from_rss() and _collect_from_web() on their own.  A source is  *)
(* a feed or a site: its call raised (feedparser.parse, or the scraper of  *)
(* a site) or gave entries; reading an entry of a feed raises when the     *)
(* entry is broken (it has no title or no link).                           *)
(***************************************************************************)
\* feed.entries[:3]
FeedSlice == 3

\* the entries of a source: at most one of them, at position `bad`, is broken
EntriesOf(source, n, bad) ==
    [k \in 1..n |-> [url |-> (source - 1) * (MaxSourceEntries + 1) + k,
                     broken |-> (k = bad)]]

SourceOutcomes(source, category) ==
    {[name |-> source, raised |-> TRUE, entries |-> <<>>]}
        \cup {[name |-> source, raised |-> FALSE, entries |-> EntriesOf(source, n, bad)] :
                 n \in 0..MaxSourceEntries,
                 bad \in IF category = "rss" THEN 0..MaxSourceEntries ELSE {0}}

\* the sources of one category and what each of them did
SourceRuns(category) ==
    UNION {{[category |-> category, sources |-> l] :
               l \in {f \in [1..n -> UNION {SourceOutcomes(i, category) : i \in 1..n}] :
                          \A i \in 1..n : f[i].name = i}} :
           n \in 0..MaxSources}

\* NewsItem(title=entry.title, ..., url=entry.link, source=source_name, ...)
EntryItem(source, entry) == FetchedItem(TextAI, entry.url, source.name, 0)

\* the inner loop of _collect_from_rss over feed.entries[:3]: the items are
\* appended to news_items one by one until an entry raises
RECURSIVE FeedLoop(_, _, _)
FeedLoop(source, entries, news_items) ==
    IF entries = <<>> \/ Head(entries).broken THEN news_items
    ELSE FeedLoop(source, Tail(entries),
                  Append(news_items, EntryItem(source, Head(entries))))

\* _collect_from_rss: the loop over rss_feeds, each feed in its try / except
RECURSIVE CollectFromRss(_, _)
CollectFromRss(sources, news_items) ==
    IF sources = <<>> THEN news_items
    ELSE LET feed == Head(sources) IN
         CollectFromRss(Tail(sources),
                        IF feed.raised THEN news_items
                        ELSE FeedLoop(feed,
                                      SubSeq(feed.entries, 1,
                                             Min(FeedSlice, Len(feed.entries))),
                                      news_items))

\* news_items.extend(items) with the list a scraper returned
RECURSIVE ExtendWith(_, _, _)
ExtendWith(source, entries, news_items) ==
    IF entries = <<>> THEN news_items
    ELSE ExtendWith(source, Tail(entries),
                    Append(news_items, EntryItem(source, Head(entries))))

\* _collect_from_web: the loop over the sites, each scraper call in its
\* try / except
RECURSIVE CollectFromWeb(_, _)
CollectFromWeb(sources, news_items) ==
    IF sources = <<>> THEN news_items
    ELSE LET site == Head(sources) IN
         CollectFromWeb(Tail(sources),
                        IF site.raised THEN news_items
                        ELSE ExtendWith(site, site.entries, news_items))

InitSources ==
    /\ file = AbsentFile
    /\ processed_urls = {}
    /\ raw_news = <<>>
    /\ final_items = <<>>
    /\ log = <<>>
    /\ saved = "none"
    /\ session = 0
    /\ collected = FALSE
    /\ formatting = DefaultConfig
    /\ messages = "none"
    /\ pc = "sources"
    /\ delivered = <<>>
    /\ error = "none"
    /\ undelivered = {}
    /\ max_age_hours = DefaultMaxAgeHours
    /\ fetched \in SourceRuns("rss") \cup SourceRuns("web")
    /\ all_news = <<>>
    /\ filtered = "none"
    /\ scored = <<>>
    /\ IdleSender
    /\ NoCredentials
    /\ DefaultCap

\* rss_news = self._collect_from_rss()
FetchRss ==
    /\ pc = "sources"
    /\ fetched.category = "rss"
    /\ all_news' = CollectFromRss(fetched.sources, <<>>)
    /\ pc' = "fetched"
    /\ UNCHANGED <<procVars, fmtVars, delivered, error, undelivered, max_age_hours,
                   fetched, filtered, scored, sendVars, envVars, confVars>>

\* web_news = self._collect_from_web()
FetchWeb ==
    /\ pc = "sources"
    /\ fetched.category = "web"
    /\ all_news' = CollectFromWeb(fetched.sources, <<>>)
    /\ pc' = "fetched"
    /\ UNCHANGED <<procVars, fmtVars, delivered, error, undelivered, max_age_hours,
                   fetched, filtered, scored, sendVars, envVars, confVars>>

NextSources == FetchRss \/ FetchWeb

SpecSources == InitSources /\ [][NextSources]_vars

(***************************************************************************)
(* _send_single_message() on its own: any retry count, any way the         *)
(* attempts end                                                            *)
(***************************************************************************)
InitSender ==
    /\ file = AbsentFile
    /\ processed_urls = {}
    /\ raw_news = <<>>
    /\ final_items = <<>>
    /\ log = <<>>
    /\ saved = "none"
    /\ session = 0
    /\ collected = FALSE
    /\ formatting = DefaultConfig
    /\ messages = "none"
    /\ pc = "sender"
    /\ delivered = <<>>
    /\ error = "none"
    /\ undelivered = {}
    /\ IdleCollector
    /\ max_retries \in 0..MaxRetryCount
    /\ events = <<>>
    /\ sent = "none"
    /\ NoCredentials
    /\ DefaultCap

\* self._send_single_message(message)
SendSingle ==
    /\ pc = "sender"
    /\ \E responses \in [1..max_retries -> AttemptOutcomes] :
         LET r == SendSingleMessage(responses, max_retries) IN
         /\ events' = r.events
         /\ sent' = r.result
    /\ pc' = "sent"
    /\ UNCHANGED <<procVars, fmtVars, delivered, error, undelivered, collVars,
                   max_retries>>
    /\ UNCHANGED envVars
    /\ UNCHANGED confVars

SpecSender == InitSender /\ [][SendSingle]_vars

(***************************************************************************)
(* send_messages() on its own: a list of blocks, each with its attempts    *)
(***************************************************************************)
\* time.sleep(0.5) between two blocks, in tenths of a second
PauseTenths == 5

\* how a post of a block can end
BatchOutcomes == {"ok", "api_error", "request_exception"}

\* what _send_single_message did for block i
BlockEvent(i, e) ==
    [block |-> i, kind |-> e.kind, outcome |-> e.outcome, tenths |-> 10 * e.seconds]

\* if i < len(messages): time.sleep(0.5)
PauseEvent(i) ==
    [block |-> i, kind |-> "pause", outcome |-> "none", tenths |-> PauseTenths]

\* a loop that ends at the first block that was not delivered
RECURSIVE SendEachUntilFailure(_, _, _, _)
SendEachUntilFailure(responses, retries, i, done) ==
    IF i > Len(responses) THEN done
    ELSE LET r == SendSingleMessage(responses[i], retries)
             made == done.events
                         \o [k \in 1..Len(r.events) |-> BlockEvent(i, r.events[k])]
         IN IF r.result
            THEN SendEachUntilFailure(responses, retries, i + 1,
                     [success |-> done.success,
                      results |-> Append(done.results, TRUE),
                      events  |-> made])
            ELSE [success |-> FALSE,
                  results |-> Append(done.results, FALSE),
                  events  |-> made]

\* the loop of send_messages from block i on; responses[i] is how the posts
\* of block i would end.  The value is what the method returns, what
\* _send_single_message returned for each block, and the posts and sleeps.
RECURSIVE SendEach(_, _, _, _)
SendEach(responses, retries, i, done) ==
    IF i > Len(responses) THEN done
    ELSE LET r == SendSingleMessage(responses[i], retries)
             made == done.events
                         \o [k \in 1..Len(r.events) |-> BlockEvent(i, r.events[k])]
                         \o (IF i < Len(responses) THEN <<PauseEvent(i)>> ELSE <<>>)
         IN SendEach(responses, retries, i + 1,
                     [success |-> done.success /\ r.result,
                      results |-> Append(done.results, r.result),
                      events  |-> made])

\* a TelegramSender and the blocks it is handed
InitBatch ==
    /\ file = AbsentFile
    /\ processed_urls = {}
    /\ raw_news = <<>>
    /\ final_items = <<>>
    /\ log = <<>>
    /\ saved = "none"
    /\ session = 0
    /\ collected = FALSE
    /\ formatting = DefaultConfig
    /\ \E n \in 0..MaxBlocks : messages = [i \in 1..n |-> <<"b">>]
    /\ pc = "batch"
    /\ delivered = <<>>
    /\ error = "none"
    /\ undelivered = {}
    /\ IdleCollector
    /\ IdleSender
    /\ NoCredentials
    /\ DefaultCap

\* success = sender.send_messages(messages)
SendBatch ==
    /\ pc = "batch"
    /\ \E responses \in [1..Len(messages) -> [1..max_retries -> BatchOutcomes]] :
         LET r == SendEach(responses, max_retries, 1,
                           [success |-> TRUE, results |-> <<>>, events |-> <<>>])
         IN /\ events' = r.events
            /\ delivered' = r.results
            /\ sent' = r.success
    /\ pc' = "batched"
    /\ UNCHANGED <<procVars, fmtVars, error, undelivered, collVars, max_retries>>
    /\ UNCHANGED envVars
    /\ UNCHANGED confVars

SpecBatch == InitBatch /\ [][SendBatch]_vars

(***************************************************************************)
(* _calculate_relevance() on its own: a text is scored, then scored again  *)
(* with one more keyword added as a word of the text                       *)
(***************************************************************************)
Filler == <<"x">>
WordModel == <<"m", "o", "d", "e", "l">>
WordTech == <<"t", "e", "c", "h">>
WordOpenai == <<"o", "p", "e", "n", "a", "i">>
WordsMachineLearning ==
    <<<<"m", "a", "c", "h", "i", "n", "e">>, <<"l", "e", "a", "r", "n", "i", "n", "g">>>>
WordsChatgptCursor ==
    <<<<"c", "h", "a", "t", "g", "p", "t">>, <<"c", "u", "r", "s", "o", "r">>>>

\* the words a base text ends with, after its filler words
LastWords == {<<WordModel>>, WordsMachineLearning, WordsChatgptCursor}

\* the keywords added to a text
AddedKeywords == {WordTech, WordOpenai}

BaseTexts ==
    {JoinWords([i \in 1..n |-> Filler] \o last) : n \in 0..MaxFill, last \in LastWords}

\* the text with the keyword added as a word after its first p words
AddKeyword(text, keyword, p) ==
    LET words == SplitWords(text)
    IN JoinWords(SubSeq(words, 1, p) \o <<keyword>> \o SubSeq(words, p + 1, Len(words)))

\* where a keyword is added: in front, after the first word, at the end
Places(text) == {0, 1, Len(SplitWords(text))} \cap 0..Len(SplitWords(text))

InitScorer ==
    /\ file = AbsentFile
    /\ processed_urls = {}
    /\ raw_news = <<>>
    /\ final_items = <<>>
    /\ log = <<>>
    /\ saved = "none"
    /\ session = 0
    /\ collected = FALSE
    /\ formatting = DefaultConfig
    /\ messages = "none"
    /\ pc = "scorer"
    /\ delivered = <<>>
    /\ error = "none"
    /\ undelivered = {}
    /\ IdleCollector
    /\ IdleSender
    /\ NoCredentials
    /\ DefaultCap

\* self._calculate_relevance(text) on a first text
CalculateBase ==
    /\ pc = "scorer"
    /\ scored = <<>>
    /\ \E text \in BaseTexts :
           scored' = <<[text |-> text, score |-> CalculateRelevance(text),
                        appended |-> FALSE]>>
    /\ UNCHANGED <<procVars, fmtVars, mainVars, max_age_hours, fetched, all_news,
                   filtered>>
    /\ UNCHANGED sendVars
    /\ UNCHANGED envVars
    /\ UNCHANGED confVars

\* self._calculate_relevance(text) on the last text with one more keyword
CalculateWithKeyword ==
    /\ pc = "scorer"
    /\ scored # <<>>
    /\ Len(scored) <= MaxAdded
    /\ LET last == scored[Len(scored)].text IN
       \E keyword \in AddedKeywords, p \in Places(last) :
           LET text == AddKeyword(last, keyword, p) IN
           scored' = Append(scored,
                            [text |-> text, score |-> CalculateRelevance(text),
                             appended |-> (p = Len(SplitWords(last)))])
    /\ UNCHANGED <<procVars, fmtVars, mainVars, max_age_hours, fetched, all_news,
                   filtered>>
    /\ UNCHANGED sendVars
    /\ UNCHANGED envVars
    /\ UNCHANGED confVars

NextScorer == CalculateBase \/ CalculateWithKeyword

SpecScorer == InitScorer /\ [][NextScorer]_vars

(***************************************************************************)
(* Properties of ContentProcessor, over the calls of a session (log)       *)
(***************************************************************************)
Calls == 1..Len(log)

\* the distinct URLs of the candidates that were not in the key set when call i began
NewUrls(i) == UrlsOf(raw_news) \ log[i].start

\* the position of the first candidate with URL u
FirstIndex(items, u) == CHOOSE i \in 1..Len(items) :
    items[i].url = u /\ \A j \in 1..(i - 1) : items[j].url # u

\* C1: the list process() returns never has more than the maximum batch size
\* (10) items, whatever the candidates and the key set it starts from.
C1_OutputAtMostBatch ==
    /\ Len(final_items) <= MaxBatch
    /\ \A i \in Calls : Len(log[i].out) <= MaxBatch

C1_Witness ==
    /\ log # <<>>
    /\ Cardinality(NewUrls(Len(log))) > MaxBatch
    /\ Len(final_items) = MaxBatch

\* C2: no item whose URL is in processed_urls when a call begins is in that
\* call's output, and no URL returned by an earlier call of the session is
\* returned by a later one.
C2_ProcessedNeverReturned ==
    /\ \A i \in Calls : UrlsOf(log[i].out) \cap log[i].start = {}
    /\ \A i, j \in Calls : i < j => UrlsOf(log[i].out) \cap UrlsOf(log[j].out) = {}

C2_Witness ==
    /\ Len(log) = 2
    /\ log[1].out # <<>>
    /\ log[2].out # <<>>
    /\ UrlsOf(raw_news) \cap log[1].start # {}

\* C3 as stated: the second of two successive process() calls on the same
\* input returns the empty list.
C3_SecondCallEmpty ==
    Len(log) >= 2 => log[2].out = <<>>

\* C3 as amended: the second of two successive calls on the same input returns
\* the empty list exactly when the first call had at most 10 distinct new URLs
\* to return; otherwise it returns candidates the first call cut off.
C3_SecondCallEmptyUnlessTruncated ==
    Len(log) >= 2 =>
        /\ (log[2].out = <<>>) <=> (Cardinality(NewUrls(1)) <= MaxBatch)
        /\ UrlsOf(log[2].out) \subseteq NewUrls(1) \ UrlsOf(log[1].out)

C3_Witness ==
    /\ Len(log) = 2
    /\ log[1].out # <<>>
    /\ Cardinality(NewUrls(1)) <= MaxBatch
    /\ log[2].out = <<>>

\* C4: the output never holds two items with the same URL, and the item it
\* holds for a URL is the first candidate of the input list with that URL.
C4_FirstOccurrenceKept ==
    \A i \in Calls :
        LET out == log[i].out IN
        /\ \A a, b \in 1..Len(out) : a # b => out[a].url # out[b].url
        /\ \A a \in 1..Len(out) : out[a] = raw_news[FirstIndex(raw_news, out[a].url)]

C4_Witness ==
    /\ log # <<>>
    /\ \E a, b \in 1..Len(raw_news) :
          /\ a < b
          /\ raw_news[a].url = raw_news[b].url
          /\ raw_news[a].source # raw_news[b].source
          /\ \E k \in 1..Len(final_items) : final_items[k] = raw_news[a]

\* C7: after a save that succeeded, loading the state file gives back the
\* same set of URLs that was saved, whatever order the file lists them in.
C7_SaveLoadRoundTrip ==
    saved = "ok" => LoadProcessedUrls(file) = processed_urls

C7_Witness ==
    /\ saved = "ok"
    /\ Cardinality(processed_urls) >= 2
    /\ file.entries # ListOfSet(processed_urls, "up")

\* C8 as stated: the state file is absent or a complete document at every
\* point, never the partial or empty remains of a write.
C8_FileNeverPartial ==
    file.kind \in {"absent", "document"}

\* C9 as stated: once process() has returned, the URL of every returned item
\* is in the state file, so a new ContentProcessor loading it filters them.
C9_ReturnedItemsDurable ==
    log # <<>> => UrlsOf(final_items) \subseteq LoadProcessedUrls(file)

\* C10: within one session processed_urls only grows, also across process()
\* calls whose save fails.
C10_ProcessedUrlsGrow ==
    [][session' = session => processed_urls \subseteq processed_urls']_vars

C10_Witness ==
    /\ log # <<>>
    /\ saved # "ok"
    /\ log[1].start # {}
    /\ log[1].start # processed_urls
    /\ log[1].start \subseteq processed_urls

\* the key set as call i left it
KeysAfter(i) == IF i < Len(log) THEN log[i + 1].start ELSE processed_urls

\* C28: a process() call adds to processed_urls exactly the URLs of the items
\* it returns: the set after the call is the set before it united with the
\* URLs of the output, so a new candidate that the truncation cut off is not
\* marked as processed and is still a new candidate for the next call.
C28_MarksExactlyTheOutput ==
    \A i \in Calls :
        /\ KeysAfter(i) = log[i].start \cup UrlsOf(log[i].out)
        /\ \A u \in NewUrls(i) \ UrlsOf(log[i].out) :
              /\ u \notin KeysAfter(i)
              /\ i < Len(log) => u \in NewUrls(i + 1)

\* a call that cut candidates off, and a next call that returned some of them
C28_Witness ==
    /\ Len(log) >= 2
    /\ Cardinality(NewUrls(1)) > MaxBatch
    /\ log[1].start # {}
    /\ log[2].out # <<>>

\* the calls it takes to return n new URLs, MaxBatch at a time
CallsNeeded(n) == (n + MaxBatch - 1) \div MaxBatch

\* the places (call, position) at which URL u was returned
ReturnedAt(u) ==
    {c \in Calls \X (1..MaxBatch) :
        c[2] <= Len(log[c[1]].out) /\ log[c[1]].out[c[2]].url = u}

\* C29: repeating process() on the same candidate list drains it: the
\* outputs of the calls have pairwise disjoint URL sets, a call that finds
\* new candidates returns at least one item, the calls up to the
\* ceil(n / 10)-th return items and the later ones return the empty list
\* (n being the number of distinct new URLs of the list), and by then every
\* distinct new URL has been returned exactly once.
C29_RepeatedCallsDrainTheList ==
    LET needed == IF log = <<>> THEN 0 ELSE CallsNeeded(Cardinality(NewUrls(1))) IN
    /\ \A i, j \in Calls : i < j => UrlsOf(log[i].out) \cap UrlsOf(log[j].out) = {}
    /\ \A i \in Calls : NewUrls(i) # {} => log[i].out # <<>>
    /\ \A i \in Calls : (log[i].out = <<>>) <=> (i > needed)
    /\ (log # <<>> /\ Len(log) >= needed) =>
           \A u \in NewUrls(1) : Cardinality(ReturnedAt(u)) = 1

\* a list with more than 10 new URLs, some of its URLs known beforehand and
\* some repeated, drained by two calls and found empty by the third
C29_Witness ==
    /\ Len(log) = 3
    /\ Cardinality(NewUrls(1)) > MaxBatch
    /\ log[1].start \cap UrlsOf(raw_news) # {}
    /\ log[2].out # <<>>
    /\ log[3].out = <<>>

(***************************************************************************)
(* Properties of main()                                                    *)
(***************************************************************************)
\* C5 as stated: when the first delivery attempt of a run is due, and after a
\* run whose delivery failed, the state file holds the keys of the run's
\* batch, and no later run returns an item of a batch whose delivery failed.
C5_BatchPersistedBeforeDelivery ==
    /\ (pc = "send" \/ (pc = "failed" /\ error = "send")) =>
           UrlsOf(final_items) \subseteq LoadProcessedUrls(file)
    /\ UrlsOf(final_items) \cap undelivered = {}

(***************************************************************************)
(* Properties of the order and the size of what process() returns          *)
(***************************************************************************)
\* the candidate that stands for URL u: the first one of the list with it
Candidate(u) == raw_news[FirstIndex(raw_news, u)]

\* C23: the output of process() is ordered by relevance score, descending,
\* with equal scores in input order, and it is the head of that order: no
\* new, unique candidate that was left out has a strictly higher score than
\* an item of the output.
C23_OutputIsHeadOfScoreOrder ==
    \A i \in Calls :
        LET out == log[i].out IN
        /\ \A a, b \in 1..Len(out) :
              a < b =>
                  /\ out[a].relevance_score >= out[b].relevance_score
                  /\ out[a].relevance_score = out[b].relevance_score =>
                         FirstIndex(raw_news, out[a].url) < FirstIndex(raw_news, out[b].url)
        /\ \A u \in NewUrls(i) \ UrlsOf(out) :
              \A a \in 1..Len(out) :
                  Candidate(u).relevance_score <= out[a].relevance_score

\* a list in rising score order with more new URLs than the batch holds:
\* the output was reordered, holds equal scores, and left candidates out
C23_Witness ==
    /\ log # <<>>
    /\ Len(raw_news) >= 2
    /\ raw_news[1].relevance_score < raw_news[2].relevance_score
    /\ NewUrls(1) \ UrlsOf(log[1].out) # {}
    /\ \E a, b \in 1..Len(log[1].out) :
          a < b /\ log[1].out[a].relevance_score = log[1].out[b].relevance_score
    /\ \E a, b \in 1..Len(log[1].out) :
          log[1].out[a].relevance_score > log[1].out[b].relevance_score

\* C24: for every configured item cap N (news.max_news_per_run) the output
\* of process() in a run has at most N items, and exactly N when at least N
\* new unique candidates exist.
C24_OutputWithinConfiguredCap ==
    \A i \in Calls :
        /\ Len(log[i].out) <= max_news_per_run
        /\ Cardinality(NewUrls(i)) >= max_news_per_run =>
               Len(log[i].out) = max_news_per_run

(***************************************************************************)
(* Properties of MessageFormatter                                          *)
(***************************************************************************)
Fragment(i) == FormatSingleItem(final_items[i], formatting)

\* C6: no block format_messages() returns is longer than max_message_length,
\* except a block that is one rendered fragment which alone exceeds it.
C6_BlocksWithinBudget ==
    messages # "none" =>
        \A b \in 1..Len(messages) :
            \/ Len(messages[b]) <= formatting.max_message_length
            \/ \E i \in 1..Len(final_items) :
                  /\ Len(Fragment(i)) > formatting.max_message_length
                  /\ messages[b] = Strip(Fragment(i))

C6_Witness ==
    /\ messages # "none"
    /\ Len(messages) >= 2
    /\ Len(messages) < Len(final_items)
    /\ \E b \in 1..Len(messages) : Len(messages[b]) > formatting.max_message_length
    /\ \E b \in 1..Len(messages) : \A i \in 1..Len(final_items) :
          messages[b] # Strip(Fragment(i))

\* the fragments the assignment puts into block b, joined in input order
BlockText(block_of, b) ==
    LET Text[i \in 0..Len(final_items)] ==
            IF i = 0 THEN <<>>
            ELSE Text[i - 1] \o (IF block_of[i] = b THEN Fragment(i) ELSE <<>>)
    IN Text[Len(final_items)]

\* the length of the open block after fragment i was placed
OpenLength(block_of, i) ==
    LET Total[j \in 0..i] ==
            IF j = 0 THEN 0
            ELSE Total[j - 1] + (IF block_of[j] = block_of[i] THEN Len(Fragment(j)) ELSE 0)
    IN Total[i]

\* block_of assigns the fragments to the blocks as a greedy in-order packing
GreedyPacking(block_of) ==
    LET n == Len(final_items) IN
    /\ block_of[1] = 1
    /\ block_of[n] = Len(messages)
    /\ \A i \in 1..(n - 1) :
          /\ block_of[i + 1] \in {block_of[i], block_of[i] + 1}
          /\ block_of[i + 1] = block_of[i] <=>
                 OpenLength(block_of, i) + Len(Fragment(i + 1))
                     <= formatting.max_message_length
    /\ \A b \in 1..Len(messages) : messages[b] = Strip(BlockText(block_of, b))

\* C22: the blocks are the greedy in-order packing of the fragments: a
\* fragment joins the current block when the combined length stays within
\* the budget, else it starts a new block; each fragment is in exactly one
\* block, whole, and the fragments keep the input order across the blocks.
C22_GreedyInOrderPacking ==
    messages # "none" =>
        IF final_items = <<>> THEN messages = <<>>
        ELSE \E block_of \in [1..Len(final_items) -> 1..Len(messages)] :
                 GreedyPacking(block_of)

\* three fragments, each within the budget: the first two share a block and
\* the third, which no longer fits, starts the second block
C22_Witness ==
    /\ messages # "none"
    /\ Len(final_items) = 3
    /\ Len(messages) = 2
    /\ messages[1] = Strip(Fragment(1) \o Fragment(2))
    /\ messages[2] = Strip(Fragment(3))
    /\ Len(Fragment(3)) <= formatting.max_message_length

\* how often a character occurs in the blocks
Occurrences(ch) ==
    LET InBlock(b) == Cardinality({k \in 1..Len(messages[b]) : messages[b][k] = ch})
        Sum[b \in 0..Len(messages)] == IF b = 0 THEN 0 ELSE Sum[b - 1] + InBlock(b)
    IN Sum[Len(messages)]

\* the items whose rendering through the template raises
Malformed == {i \in 1..Len(final_items) : RenderRaises(final_items[i], formatting)}

\* C21: when rendering an item through the template raises, format_messages()
\* still returns its blocks; the item is in them as title and url only, and
\* every other item is in them as the template renders it.
C21_MalformedItemFallsBack ==
    messages # "none" =>
        /\ \A i \in Malformed :
              \E b \in 1..Len(messages) :
                  Contains(messages[b],
                           <<"T", " ">> \o final_items[i].title \o <<"\n", "U", " ">>
                               \o Strip(UrlStr(final_items[i].url)))
        /\ \A i \in (1..Len(final_items)) \ Malformed :
              \E b \in 1..Len(messages) :
                  Contains(messages[b],
                           Strip(ApplyTemplate(formatting.format_template,
                                               CleanText(final_items[i].title),
                                               Shorten(CleanText(final_items[i].summary),
                                                       formatting.summary_max_length),
                                               Strip(UrlText(final_items[i].url)))))
        /\ Occurrences("T") = Len(final_items)
        /\ Occurrences("U") = Len(final_items)
        /\ Occurrences("S") = Len(final_items) - Cardinality(Malformed)

\* three items of which the second has no url, under a width shorten()
\* accepts: one item fell back, two were rendered
C21_Witness ==
    /\ messages # "none"
    /\ Len(final_items) = 3
    /\ Malformed = {2}
    /\ Occurrences("S") = 2
    /\ Occurrences("T") = 3

(***************************************************************************)
(* Properties of the load of the state file (SpecLoad)                     *)
(***************************************************************************)
\* C11: when the state file is missing, unreadable, not valid JSON or valid
\* JSON of the wrong shape (anything but an object whose processed_urls is an
\* array of keys), constructing a ContentProcessor raises nothing and the
\* key set starts empty.
C11_LoadBestEffort ==
    (pc = "loaded" /\ file.kind # "document") =>
        (error = "none" /\ processed_urls = {})

(***************************************************************************)
(* Properties of the filter of collect_all() (SpecFilter)                  *)
(***************************************************************************)
\* the item is in the list the filter returned
Kept(item) == \E j \in 1..Len(filtered) : filtered[j].url = item.url

\* the age of an item in minutes (negative for a date in the future)
Age(item) == 0 - item.published_at

CeilingMinutes == CeilingDays * HoursPerDay * MinutesPerHour

\* the score of an item whose title and summary are strings, else -1
Score(item) ==
    IF NoneValue \in {item.title, item.summary} THEN 0 - 1
    ELSE CalculateRelevance(ItemText(item))

\* C12: an item whose date is not in the future is kept only if it is no
\* older than max_age_hours; an item older than 7 days is rejected whatever
\* max_age_hours is, windows longer than 7 days included; with the default
\* window of 24 hours an item dated 10 days ago is rejected.
C12_PastItemsWithinWindow ==
    filtered # "none" =>
        \A i \in 1..Len(all_news) :
            LET item == all_news[i] IN
            item.published_at <= 0 =>
                /\ Kept(item) => Age(item) <= max_age_hours * MinutesPerHour
                /\ Age(item) > CeilingMinutes => ~Kept(item)
                /\ (/\ max_age_hours = DefaultMaxAgeHours
                    /\ Age(item) = (CeilingDays + ExtraDays) * HoursPerDay * MinutesPerHour)
                       => ~Kept(item)

\* a relevant item older than the ceiling but inside a longer window was
\* filtered and is not in the result
C12_Witness ==
    /\ filtered # "none"
    /\ max_age_hours > CeilingDays * HoursPerDay
    /\ \E i \in 1..Len(all_news) :
           /\ Age(all_news[i]) > CeilingMinutes
           /\ Age(all_news[i]) <= max_age_hours * MinutesPerHour
           /\ Score(all_news[i]) > MinRelevance
           /\ ~Kept(all_news[i])

\* C13 as stated: an item dated ahead of now is never rejected by the date
\* test (it is in the result whenever its score is above the threshold),
\* within the 1-hour allowance or beyond it, for every max_age_hours.
C13_FutureItemsNeverRejected ==
    filtered # "none" =>
        \A i \in 1..Len(all_news) :
            (/\ all_news[i].published_at > 0
             /\ Score(all_news[i]) > MinRelevance)
                => Kept(all_news[i])

\* C13 amended: an item dated more than 1 hour ahead is never rejected by
\* the date test, for every max_age_hours; an item dated ahead of now by at
\* most 1 hour is never rejected when max_age_hours is not negative, and with
\* a negative max_age_hours it is rejected exactly when it is less than
\* -max_age_hours hours ahead.
C13_FutureItemsKeptUnlessNegativeWindow ==
    filtered # "none" =>
        \A i \in 1..Len(all_news) :
            (/\ all_news[i].published_at > 0
             /\ Score(all_news[i]) > MinRelevance)
                => (Kept(all_news[i]) <=>
                       \/ all_news[i].published_at > SkewHours * MinutesPerHour
                       \/ max_age_hours >= 0
                       \/ all_news[i].published_at >= 0 - max_age_hours * MinutesPerHour)

\* an item dated 30 minutes ahead was filtered under a window that is not
\* negative and is in the result
C13_Witness ==
    /\ filtered # "none"
    /\ max_age_hours >= 0
    /\ \E i \in 1..Len(all_news) :
           /\ all_news[i].published_at = (SkewHours * MinutesPerHour) \div 2
           /\ Kept(all_news[i])

\* C15: among the items that pass the date test, exactly those whose score
\* is below the threshold 0.3 are dropped; an item whose score is not below
\* the threshold is in the result and carries that score in relevance_score.
C15_DroppedExactlyBelowThreshold ==
    filtered # "none" =>
        \A i \in 1..Len(all_news) :
            LET item  == all_news[i]
                score == Score(item)
            IN (IsRecent(item.published_at, max_age_hours) /\ score >= 0) =>
                  IF score < MinRelevance
                  THEN ~Kept(item)
                  ELSE \E j \in 1..Len(filtered) :
                          /\ filtered[j].url = item.url
                          /\ filtered[j].relevance_score = score

(***************************************************************************)
(* Properties of the scorer (SpecScorer)                                   *)
(***************************************************************************)
\* C14 as stated: adding further matching keywords to a text never lowers
\* the score of _calculate_relevance, and every score is at least 0 and at
\* most the ceiling 3.0.
C14_ScoreMonotoneAndCapped ==
    \A i \in 1..Len(scored) :
        /\ scored[i].score >= 0
        /\ scored[i].score <= ScoreCeiling
        /\ i > 1 => scored[i].score >= scored[i - 1].score

\* C14 amended: appending further matching keywords at the end of a text
\* never lowers its score, and every score is at least 0 and at most 3.0 (a
\* keyword added before the end can lower the score: it moves the tenth word
\* out of the window of the title bonus, or splits a keyword of two words).
C14_ScoreMonotoneWhenAppended ==
    \A i \in 1..Len(scored) :
        /\ scored[i].score >= 0
        /\ scored[i].score <= ScoreCeiling
        /\ (i > 1 /\ scored[i].appended) => scored[i].score >= scored[i - 1].score

\* a text was scored below the ceiling, then again with a keyword appended
\* and the score rose, then with another and the score reached the ceiling
C14_Witness ==
    /\ Len(scored) = 3
    /\ scored[2].appended /\ scored[3].appended
    /\ scored[1].score < scored[2].score
    /\ scored[2].score < scored[3].score
    /\ scored[3].score = ScoreCeiling

(***************************************************************************)
(* Properties of collect_all() (SpecCollector)                             *)
(***************************************************************************)
\* the place of a category in the order of discovery
CategoryRank(c) == CHOOSE i \in 1..Len(Categories) : Categories[i] = c

\* C16: the list collect_all() returns is ordered by score descending, and
\* items of equal score stand in the order of discovery: API items, then
\* RSS items, then web items, each category in the order it was fetched.
C16_SortedByScoreStable ==
    pc = "collected" =>
        /\ \A i, j \in 1..Len(raw_news) :
              i < j =>
                /\ raw_news[i].relevance_score >= raw_news[j].relevance_score
                /\ raw_news[i].relevance_score = raw_news[j].relevance_score =>
                      \/ CategoryRank(raw_news[i].source) < CategoryRank(raw_news[j].source)
                      \/ /\ raw_news[i].source = raw_news[j].source
                         /\ \E a, b \in 1..Len(fetched[raw_news[i].source].items) :
                               /\ a < b
                               /\ fetched[raw_news[i].source].items[a].url = raw_news[i].url
                               /\ fetched[raw_news[j].source].items[b].url = raw_news[j].url

\* a result of three items in which a later category's item of higher score
\* stands first and two items of equal score follow, the web item last
C16_Witness ==
    /\ pc = "collected"
    /\ Len(raw_news) >= 3
    /\ \E i, j, k \in 1..Len(raw_news) :
          /\ i < j /\ j < k
          /\ raw_news[i].relevance_score > raw_news[j].relevance_score
          /\ raw_news[i].source = "rss" /\ raw_news[j].source = "rss"
          /\ raw_news[i].url > raw_news[j].url
          /\ raw_news[j].relevance_score = raw_news[k].relevance_score
          /\ raw_news[k].source = "web"

\* the item of a fetcher that returned passes the date test and scores
\* above the threshold
Passes(item) ==
    /\ IsRecent(item.published_at, max_age_hours)
    /\ Score(item) > MinRelevance

\* C17: collect_all() never raises, whichever fetchers fail and whatever
\* items the others return: the items of the fetchers that returned are
\* merged and filtered (every one of them that passes the filter is in the
\* result, and nothing else is), and when every fetcher fails the result is
\* the empty list.
C17_CollectAllNeverRaises ==
    pc # "collector" =>
        /\ pc = "collected"
        /\ error = "none"
        /\ \A i \in 1..Len(Categories) :
              LET c == Categories[i] IN
              ~fetched[c].raised =>
                  \A k \in 1..Len(fetched[c].items) :
                      Passes(fetched[c].items[k]) =>
                          \E j \in 1..Len(raw_news) :
                              raw_news[j].url = fetched[c].items[k].url
        /\ \A j \in 1..Len(raw_news) :
              \E i \in 1..Len(Categories) :
                  /\ ~fetched[Categories[i]].raised
                  /\ \E k \in 1..Len(fetched[Categories[i]].items) :
                        /\ fetched[Categories[i]].items[k].url = raw_news[j].url
                        /\ Passes(fetched[Categories[i]].items[k])

(***************************************************************************)
(* Properties of the delivery of one block (SpecSender)                    *)
(***************************************************************************)
\* the posts made, in order
Posts == SelectSeq(events, LAMBDA e : e.kind = "post")

\* C18: _send_single_message makes at most max_retries attempts, stops at
\* the first attempt that succeeds and returns True, waits 2^k seconds after
\* the failed attempt k (k from 0: 1 s, then 2 s) and not after the last
\* attempt, and returns False exactly when every attempt failed.
C18_BoundedRetriesWithBackoff ==
    pc = "sent" =>
        /\ Len(Posts) <= max_retries
        /\ \A i \in 1..Len(Posts) : Posts[i].outcome = "ok" => i = Len(Posts)
        /\ sent = TRUE <=> (Posts # <<>> /\ Posts[Len(Posts)].outcome = "ok")
        /\ sent = FALSE <=> (/\ Len(Posts) = max_retries
                             /\ \A i \in 1..Len(Posts) : Posts[i].outcome # "ok")
        /\ \A i \in 1..Len(events) :
              IF i % 2 = 1
              THEN events[i].kind = "post"
              ELSE /\ events[i].kind = "sleep"
                   /\ events[i].seconds = 2 ^ ((i \div 2) - 1)
                   /\ events[i - 1].outcome # "ok"
        /\ events # <<>> => events[Len(events)].kind = "post"

\* with the default of 3 attempts every attempt failed: three posts, a wait
\* of 1 s after the first, of 2 s after the second, none after the third
C18_Witness ==
    /\ pc = "sent"
    /\ max_retries = DefaultMaxRetries
    /\ sent = FALSE
    /\ Len(events) = 5
    /\ events[2] = SleepEvent(1)
    /\ events[4] = SleepEvent(2)
    /\ events[5].kind = "post"

(***************************************************************************)
(* Properties of a run of main() (SpecMain)                                *)
(***************************************************************************)
\* a block that was handed to _send_single_message and came back False, that
\* is (C18) a block whose every attempt failed
Exhausted(i) == i \in 1..Len(delivered) /\ ~delivered[i]

\* C19: if the delivery of any block of a run exhausts its retries, main()
\* raises and does not report the pipeline as completed; if every block is
\* delivered, main() returns normally.  (The heartbeat of a run without
\* news is held to the same rule.)
C19_UndeliveredBlockFailsRun ==
    /\ (\E i \in 1..Len(delivered) : Exhausted(i)) =>
           pc = "failed" /\ error \in {"send", "heartbeat"}
    /\ (delivered # <<>> /\ \A i \in 1..Len(delivered) : delivered[i]) =>
           pc = "completed" /\ error = "none"
    /\ pc = "completed" => \A i \in 1..Len(delivered) : ~Exhausted(i)

\* a run of several blocks whose first block was delivered and whose last
\* was not: the run has failed
C19_Witness ==
    /\ pc = "failed"
    /\ error = "send"
    /\ Len(delivered) >= 2
    /\ delivered[1]
    /\ Exhausted(Len(delivered))

\* the credentials main() ends up with are not acceptable: one of them is
\* empty after sanitization or does not match its pattern
BadCredentials ==
    LET telegram_token   == SanitizeToken(raw_token)
        telegram_chat_id == SanitizeChat(raw_chat)
    IN \/ telegram_token = <<>>
       \/ telegram_chat_id = <<>>
       \/ ~TokenOk(telegram_token)
       \/ ~ChatOk(telegram_chat_id)

\* C20: when the sanitized bot token or chat id is empty or does not match
\* its pattern, main() aborts with an error before any news is collected,
\* before the state file is written and before any briefing is delivered.
C20_BadCredentialsAbortBeforeWork ==
    BadCredentials =>
        /\ pc \in {"start", "failed"}
        /\ pc = "failed" => error \in {"config", "credentials"}
        /\ ~collected
        /\ raw_news = <<>>
        /\ saved = "none"
        /\ file = AbsentFile
        /\ messages = "none"
        /\ delivered = <<>>

\* a well-formed token with a chat id that keeps a superscript digit: the
\* run was aborted at the check of the credentials
C20_Witness ==
    /\ pc = "failed"
    /\ error = "credentials"
    /\ TokenOk(SanitizeToken(raw_token))
    /\ SanitizeChat(raw_chat) # <<>>
    /\ ~ChatOk(SanitizeChat(raw_chat))

(***************************************************************************)
(* Properties of the fetchers of one category (SpecSources)                *)
(***************************************************************************)
\* the entries of a source that are read: the first 3 of a feed, all of a site
EntriesRead(source) ==
    IF fetched.category = "rss"
    THEN SubSeq(source.entries, 1, Min(FeedSlice, Len(source.entries)))
    ELSE source.entries

\* the fetch of the source raised, or reading one of its entries did
SourceFails(source) ==
    \/ source.raised
    \/ \E k \in 1..Len(EntriesRead(source)) : EntriesRead(source)[k].broken

\* C25: a source whose fetch or parsing raises contributes no item to the
\* result of its category, and every other source contributes its items.
C25_FailingSourceContributesNothing ==
    pc = "fetched" =>
        \A i \in 1..Len(fetched.sources) :
            LET source == fetched.sources[i]
                contributed == SelectSeq(all_news, LAMBDA item : item.source = source.name)
            IN IF SourceFails(source)
               THEN contributed = <<>>
               ELSE contributed = [k \in 1..Len(EntriesRead(source)) |->
                                      EntryItem(source, EntriesRead(source)[k])]

(***************************************************************************)
(* Properties of the source-category bonus (SpecSocial)                    *)
(***************************************************************************)
\* the score of a text without the social bonus and without the cap
KeywordScore(text) ==
    LET text_lower == Lower(text) IN
    HighWeight * Matches(high_priority, text_lower)
        + MediumWeight * Matches(medium_priority_en, text_lower)
        + MediumWeight * Matches(medium_priority_pt, text_lower)
        + LowWeight * Matches(low_priority, text_lower)
        + TitleWeight * TitleMatches(TitleWords(text_lower))

\* C26: every item whose source label is a social-profile channel (LinkedIn
\* or Instagram) has the flat social bonus (0.8, before the cap) in its
\* relevance score, and an item of another source has it only when its
\* text names a social term.
C26_SocialBonusFollowsSource ==
    pc = "filtered" =>
        \A i \in 1..Len(all_news) :
            LET item == all_news[i]
                text == ItemText(item)
                bonus == IF item.source \in SocialSources
                            \/ Matches(social_terms, Lower(text)) > 0
                         THEN SocialWeight ELSE 0
                score == Min(KeywordScore(text) + bonus, ScoreCeiling)
            IN score > MinRelevance =>
                   \E k \in 1..Len(filtered) :
                       /\ filtered[k].url = item.url
                       /\ filtered[k].relevance_score = score

PostsOf(i) == SelectSeq(events, LAMBDA e : e.block = i /\ e.kind = "post")

\* C30: send_messages() attempts every block, in list order, also after an
\* earlier block has failed, so that a later block can be delivered while
\* an earlier one is not; it returns True exactly when every block was
\* delivered.
C30_EveryBlockAttemptedInOrder ==
    pc = "batched" =>
        /\ Len(delivered) = Len(messages)
        /\ \A i \in 1..Len(messages) :
              /\ PostsOf(i) # <<>>
              /\ delivered[i] <=> PostsOf(i)[Len(PostsOf(i))].outcome = "ok"
        /\ \A a, b \in 1..Len(events) : a < b => events[a].block <= events[b].block
        /\ sent \in BOOLEAN
        /\ sent <=> \A i \in 1..Len(messages) : delivered[i]
        /\ sent = SendMessages(delivered)

\* the first block was given up, the second one was delivered after it
C30_Witness ==
    /\ pc = "batched"
    /\ Len(messages) >= 2
    /\ ~delivered[1]
    /\ delivered[2]
    /\ sent = FALSE

====
